---------------------------- MODULE Spec2Model ----------------------------
(***************************************************************************)
(* Browser Actogram background service worker (src/unnamed/part_002):      *)
(* the epoch reconciliation engine, its initialization guard and the host  *)
(* (clock, idle source, alarms, stores) it runs against.                   *)
(*                                                                         *)
(* Every async function is a task; a task suspends at each `await` of a    *)
(* host or store call and other tasks may run in between.  One step of a   *)
(* task is the synchronous code between two suspension points.  A store    *)
(* call takes its argument and effect when it is issued (the value is      *)
(* cloned at the call); the step after it is the resumption.               *)
(* Times are milliseconds, as Date.now().                                  *)
(***************************************************************************)
EXTENDS Integers, FiniteSets, Sequences, TLC

(* ------------------------------ bounds -------------------------------- *)
\* how many times the clock advances in one behaviour
MaxAdvances == 2
\* how many host/store calls fail in one behaviour that has failures
MaxFailures == 1
\* how many times the clock advances in a behaviour that has failures
MaxFailAdvances == 1
\* how many initialization attempts are started in one behaviour
MaxAttempts == 2

(* -------------------------- program constants ------------------------- *)
MAX_TRUSTED_GAP_MS == 120000
DEFAULT_EPOCH_DURATION == 15
PERSIST_INTERVAL_S == 30
GAP_SCORE == -1

(* ------------------------------ inputs -------------------------------- *)
\* Date.now() when the worker script is loaded
T0 == 1000000
\* amounts by which the clock advances between two steps (ms)
ClockSteps == {20500, 130000}
\* configured settings.epochDuration (minutes)
EpochDurations == {1}
BusyStates == {"active", "idle", "locked"}
\* entry points that call initialize(): script load, onInstalled, onStartup
Callers == {"load", "installed", "startup"}
\* trigger handlers: the heartbeat alarm and the idle-state listener
Procs == {"tick", "change"}
Attempts == 1..MaxAttempts

Null == 0
NoRecord == [none |-> TRUE]
NotCalled == -1
Returned == 0

Max(a, b) == IF a >= b THEN a ELSE b
Min(a, b) == IF a <= b THEN a ELSE b

\* Math.round(n / d) for n >= 0, d > 0 (ties go up)
Round(n, d) == (2 * n + d) \div (2 * d)

VARIABLES
    clock,                  \* Date.now()
    busy,                   \* what chrome.idle.queryState reports
    settings,               \* stored settings.epochDuration
    tickDue,                \* the heartbeat alarm is due (once per clock reading)
    changeDue,              \* the idle source may report a change (once per clock reading)
    trackingState,          \* in-memory trackingState
    currentEpoch,           \* in-memory currentEpoch (startTime Null = null)
    isInitialized,
    isInitializing,
    initializationPromise,  \* Null, or the attempt whose promise it is
    serviceWorkerRestarts,
    alarms,                 \* names of the registered chrome alarms
    listeners,              \* registrations of handleIdleStateChange
    storedState,            \* persisted tracking state, or NoRecord
    storedEpoch,            \* persisted current epoch, or NoRecord
    epochs,                 \* the epochs object store (keyPath timestamp)
    lastHeartbeat,          \* chrome.storage.local lastHeartbeat, Null if unset
    att,                    \* the initialization attempts (async IIFE + startTracking)
    proc,                   \* the trigger handlers in progress
    loaded,                 \* the worker script has run its top level
    returned,               \* what the latest initialize() call returned
    clockBudget,            \* how many more times the clock advances
    failBudget,             \* how many more host/store calls fail
    health,                 \* the page's WorkerHealth call in progress and its result
    message,                \* per message type: none, sent, or the worker's response
    merge                   \* an import: _mergeActivityData's inputs and result, the call's progress

vars == <<clock, busy, settings, tickDue, changeDue, trackingState, currentEpoch, isInitialized,
          isInitializing, initializationPromise, serviceWorkerRestarts, alarms,
          listeners, storedState, storedEpoch, epochs, lastHeartbeat, att, proc,
          loaded, returned, clockBudget, failBudget, health, message, merge>>

hostVars == <<clock, busy, settings, tickDue, changeDue, clockBudget>>
engineVars == <<trackingState, currentEpoch>>
initVars == <<isInitialized, isInitializing, initializationPromise, serviceWorkerRestarts>>
regVars == <<alarms, listeners>>
storeVars == <<storedState, storedEpoch, epochs, lastHeartbeat>>
callVars == <<loaded, returned>>
pageVars == <<health, message, merge>>


(* ------------------------- what a restart finds ------------------------ *)
AlarmNames == {"activityHeartbeat", "cleanup", "sleepAnalysis"}

\* the module-level initial values of part_002
InitialTrackingState ==
    [isTracking |-> FALSE, lastCheckTime |-> T0, lastState |-> "active"]
InitialEpoch ==
    [startTime |-> Null, activeSeconds |-> 0, totalSeconds |-> 0,
     epochDuration |-> DEFAULT_EPOCH_DURATION]

\* what an earlier run of the worker left in the stores: a tracking state and
\* an open epoch saved by its last reconciliation
SavedTrackingState ==
    [isTracking |-> TRUE, lastCheckTime |-> T0 - 10000, lastState |-> "idle"]
SavedEpoch ==
    [startTime |-> T0 - 40000, activeSeconds |-> 10, totalSeconds |-> 30,
     epochDuration |-> 1]

(* ------------------------------ helpers ------------------------------- *)
\* startNewEpoch(): the fresh accumulator, created at time t
StartNewEpoch(ce, t) ==
    [startTime |-> t, activeSeconds |-> 0, totalSeconds |-> 0,
     epochDuration |-> IF ce.epochDuration = 0 THEN DEFAULT_EPOCH_DURATION
                       ELSE ce.epochDuration]

\* IndexedDB put into a store keyed by timestamp: replaces the record of that key
Put(store, rec) == {r \in store : r.timestamp # rec.timestamp} \cup {rec}

\* chrome.alarms.create: an alarm of the same name is replaced
CreateAlarm(as, name) == as \cup {name}

\* ensureAlarms after chrome.alarms.getAll(): creates each alarm that is missing
EnsureAlarms(as) ==
    LET a1 == IF "activityHeartbeat" \notin as THEN CreateAlarm(as, "activityHeartbeat") ELSE as
        a2 == IF "cleanup" \notin as THEN CreateAlarm(a1, "cleanup") ELSE a1
    IN  IF "sleepAnalysis" \notin as THEN CreateAlarm(a2, "sleepAnalysis") ELSE a2

\* startTracking, tail: onStateChanged.addListener guarded by hasListener
AddListener(n) == IF n = 0 THEN n + 1 ELSE n

\* a host or store call may fail while the failure budget lasts
CanFail == failBudget > 0

\* a trigger handler that is not running
IdleProc == [pc |-> "idle", path |-> "none", now |-> Null, newState |-> "active"]

\* no WorkerHealth call has been made; no message is in flight
IdleHealth ==
    [op |-> "none", pc |-> "idle", isHealthy |-> FALSE, wakeSuccess |-> FALSE,
     result |-> FALSE, readFails |-> FALSE, wakes |-> 0]
NoMessage == [WAKE_UP |-> "none", KEEP_ALIVE |-> "none"]
\* no import is merging
NoMerge == [existing |-> <<>>, imported |-> <<>>, result |-> <<>>, done |-> FALSE]

(* ------------------------------- Init ---------------------------------- *)
InitWorker ==
    /\ clock = T0
    /\ busy \in BusyStates
    /\ settings \in EpochDurations
    /\ tickDue = TRUE
    /\ changeDue = TRUE
    /\ trackingState = InitialTrackingState
    /\ currentEpoch = InitialEpoch
    /\ isInitialized = FALSE
    /\ isInitializing = FALSE
    /\ initializationPromise = Null
    /\ serviceWorkerRestarts = 0
    /\ listeners = 0
    /\ \E resumed \in BOOLEAN :
         /\ alarms = IF resumed THEN AlarmNames ELSE {}
         /\ storedState = IF resumed THEN SavedTrackingState ELSE NoRecord
         /\ storedEpoch = IF resumed THEN SavedEpoch ELSE NoRecord
    /\ epochs = {}
    /\ lastHeartbeat = Null
    /\ att = [a \in Attempts |-> [pc |-> "idle", st |-> "none"]]
    /\ proc = [p \in Procs |-> IdleProc]
    /\ loaded = FALSE
    /\ returned = NotCalled

\* a run in which time passes and no host or store call fails
Init ==
    /\ InitWorker
    /\ clockBudget = MaxAdvances
    /\ failBudget = 0
    /\ health = IdleHealth
    /\ message = NoMessage
    /\ merge = NoMerge

\* a run in which host and store calls may fail
InitFail ==
    /\ InitWorker
    /\ clockBudget = MaxFailAdvances
    /\ failBudget = MaxFailures
    /\ health = IdleHealth
    /\ message = NoMessage
    /\ merge = NoMerge

(* --------------------------- initialize() ------------------------------ *)
\* InitializeGuard without the isInitialized test: an initialized engine
\* goes on to start an attempt
InitializeGuard_NoReturn(inited, promise) ==
    IF promise # Null /\ ~inited THEN "join" ELSE "start"

\* the two guards at the top of initialize()
InitializeGuard(inited, promise) ==
    IF inited THEN "return"
    ELSE IF promise # Null THEN "join"
    ELSE "start"

\* initialize() up to the first await of the attempt it starts (or its
\* return), called when the flags are inited and promise; result is what the
\* caller gets: Returned, or the attempt whose promise it awaits
InitializeCall(inited, promise, result) ==
    LET g == InitializeGuard(inited, promise) IN
    CASE g = "return" ->
           /\ result = Returned
           /\ isInitialized' = inited
           /\ initializationPromise' = promise
           /\ UNCHANGED <<isInitializing, serviceWorkerRestarts, att>>
      [] g = "join" ->
           /\ result = promise
           /\ isInitialized' = inited
           /\ initializationPromise' = promise
           /\ UNCHANGED <<isInitializing, serviceWorkerRestarts, att>>
      [] g = "start" ->
           /\ serviceWorkerRestarts < MaxAttempts
           /\ result = serviceWorkerRestarts + 1
           /\ isInitialized' = inited
           /\ isInitializing' = TRUE
           /\ serviceWorkerRestarts' = serviceWorkerRestarts + 1
           /\ initializationPromise' = serviceWorkerRestarts + 1
           /\ att' = [att EXCEPT ![serviceWorkerRestarts + 1] =
                         [pc |-> "storageInit", st |-> "none"]]

\* script load (line 498), onInstalled, onStartup: each calls initialize()
Initialize(c) ==
    /\ loaded <=> c # "load"
    /\ loaded' = TRUE
    /\ \E result \in {Returned} \cup Attempts :
         /\ InitializeCall(isInitialized, initializationPromise, result)
         /\ returned' = result
    /\ UNCHANGED <<hostVars, engineVars, regVars, storeVars, proc, failBudget>>
    /\ UNCHANGED pageVars

\* AttemptFails that leaves the promise in place (the catch block of the
\* earlier revision, part_001, resets nothing)
AttemptFails_KeepPromise(a) ==
    /\ isInitialized' = FALSE
    /\ isInitializing' = FALSE
    /\ att' = [att EXCEPT ![a].pc = "failed"]
    /\ failBudget' = failBudget - 1
    /\ UNCHANGED <<initializationPromise, serviceWorkerRestarts>>

\* AttemptFails that takes the failed attempt out of the restart counter
AttemptFails_Uncounted(a) ==
    /\ isInitialized' = FALSE
    /\ isInitializing' = FALSE
    /\ initializationPromise' = Null
    /\ att' = [att EXCEPT ![a].pc = "failed"]
    /\ failBudget' = failBudget - 1
    /\ serviceWorkerRestarts' = serviceWorkerRestarts - 1

\* the catch block of the attempt: all flags reset, the error rethrown
AttemptFails(a) ==
    /\ isInitialized' = FALSE
    /\ isInitializing' = FALSE
    /\ initializationPromise' = Null
    /\ att' = [att EXCEPT ![a].pc = "failed"]
    /\ failBudget' = failBudget - 1
    /\ UNCHANGED serviceWorkerRestarts

\* resumes after StorageManager.initialize(); then calls getSettings()
InitStorage(a) ==
    /\ att[a].pc = "storageInit"
    /\ \/ /\ att' = [att EXCEPT ![a].pc = "getSettings"]
          /\ UNCHANGED <<initVars, failBudget>>
       \/ /\ CanFail
          /\ AttemptFails(a)
    /\ UNCHANGED <<hostVars, engineVars, regVars, storeVars, proc, callVars>>
    /\ UNCHANGED pageVars

\* resumes after getSettings() (which never throws); then calls getTrackingState()
InitSettings(a) ==
    /\ att[a].pc = "getSettings"
    /\ currentEpoch' = [currentEpoch EXCEPT !.epochDuration = settings]
    /\ att' = [att EXCEPT ![a].pc = "getTrackingState"]
    /\ UNCHANGED <<hostVars, trackingState, initVars, regVars, storeVars, proc,
                   callVars, failBudget>>
    /\ UNCHANGED pageVars

\* resumes after getTrackingState(); then calls getCurrentEpoch()
InitTrackingState(a) ==
    /\ att[a].pc = "getTrackingState"
    /\ \/ /\ trackingState' =
                IF storedState # NoRecord
                THEN [storedState EXCEPT !.lastCheckTime = clock]
                ELSE trackingState
          /\ att' = [att EXCEPT ![a].pc = "getCurrentEpoch"]
          /\ UNCHANGED <<initVars, failBudget>>
       \/ /\ CanFail
          /\ AttemptFails(a)
          /\ UNCHANGED trackingState
    /\ UNCHANGED <<hostVars, currentEpoch, regVars, storeVars, proc, callVars>>
    /\ UNCHANGED pageVars

\* startTracking() up to its first await: the early return, or the two writes
StartTrackingBegins(ts, inited) == ~(ts.isTracking /\ inited)

\* resumes after getCurrentEpoch() (null when the read fails); restores or
\* creates the accumulator, calls startTracking() without awaiting it, then
\* calls ensureAlarms(), which awaits chrome.alarms.getAll()
InitCurrentEpoch(a) ==
    /\ att[a].pc = "getCurrentEpoch"
    /\ \/ /\ currentEpoch' = IF storedEpoch # NoRecord THEN storedEpoch
                             ELSE StartNewEpoch(currentEpoch, clock)
          /\ UNCHANGED failBudget
       \/ /\ CanFail
          /\ currentEpoch' = StartNewEpoch(currentEpoch, clock)
          /\ failBudget' = failBudget - 1
    /\ IF StartTrackingBegins(trackingState, isInitialized)
       THEN /\ trackingState' = [trackingState EXCEPT !.isTracking = TRUE,
                                                      !.lastCheckTime = clock]
            /\ att' = [att EXCEPT ![a] = [pc |-> "getAlarms", st |-> "query"]]
       ELSE /\ UNCHANGED trackingState
            /\ att' = [att EXCEPT ![a] = [pc |-> "getAlarms", st |-> "done"]]
    /\ UNCHANGED <<hostVars, initVars, regVars, storeVars, proc, callVars>>
    /\ UNCHANGED pageVars

\* resumes after chrome.alarms.getAll(): ensureAlarms creates the missing
\* alarms and returns, and the attempt marks the engine initialized
InitAlarms(a) ==
    /\ att[a].pc = "getAlarms"
    /\ \/ /\ alarms' = EnsureAlarms(alarms)
          /\ isInitialized' = TRUE
          /\ isInitializing' = FALSE
          /\ att' = [att EXCEPT ![a].pc = "ok"]
          /\ UNCHANGED <<initializationPromise, serviceWorkerRestarts, failBudget>>
       \/ /\ CanFail
          /\ AttemptFails(a)
          /\ UNCHANGED alarms
    /\ UNCHANGED <<hostVars, engineVars, listeners, storeVars, proc, callVars>>
    /\ UNCHANGED pageVars

(* --------------------------- startTracking() --------------------------- *)
\* resumes after getSettings() and chrome.idle.queryState(); stores the state
\* and calls saveTrackingState
StartTrackingQuery(a) ==
    /\ att[a].st = "query"
    /\ \/ /\ trackingState' = [trackingState EXCEPT !.lastState = busy]
          /\ \/ /\ storedState' = trackingState'
                /\ att' = [att EXCEPT ![a].st = "save"]
                /\ UNCHANGED failBudget
             \/ /\ CanFail
                /\ att' = [att EXCEPT ![a].st = "failed"]
                /\ failBudget' = failBudget - 1
                /\ UNCHANGED storedState
       \/ /\ CanFail
          /\ att' = [att EXCEPT ![a].st = "failed"]
          /\ failBudget' = failBudget - 1
          /\ UNCHANGED <<trackingState, storedState>>
    /\ UNCHANGED <<hostVars, currentEpoch, initVars, regVars, storedEpoch, epochs,
                   lastHeartbeat, proc, callVars>>
    /\ UNCHANGED pageVars

\* resumes after saveTrackingState: heartbeat alarm, detection interval, listener
StartTrackingRegister(a) ==
    /\ att[a].st = "save"
    /\ alarms' = CreateAlarm(alarms, "activityHeartbeat")
    /\ listeners' = AddListener(listeners)
    /\ att' = [att EXCEPT ![a].st = "done"]
    /\ UNCHANGED <<hostVars, engineVars, initVars, storeVars, proc, callVars, failBudget>>
    /\ UNCHANGED pageVars


(* ----------------------- reconciliation helpers ------------------------ *)
\* updateActivity: Math.max(0, Math.floor((now - lastCheckTime) / 1000))
TimeDeltaSeconds(now, last) == Max(0, (now - last) \div 1000)

\* IsGap with an inclusive comparison
IsGap_Inclusive(elapsedMs) == elapsedMs >= MAX_TRUSTED_GAP_MS

\* updateActivityWithCheckpoint: elapsedMs > MAX_TRUSTED_GAP_MS
IsGap(elapsedMs) == elapsedMs > MAX_TRUSTED_GAP_MS

\* Accumulate with the bookkeeping split by state and no cap: active time
\* goes to activeSeconds only, other time to totalSeconds only
Accumulate_Split(ce, delta, lastState, t) ==
    LET e0 == IF ce.startTime = Null THEN StartNewEpoch(ce, t) ELSE ce
    IN  IF lastState = "active"
        THEN [e0 EXCEPT !.activeSeconds = e0.activeSeconds + delta]
        ELSE [e0 EXCEPT !.totalSeconds = e0.totalSeconds + delta]

\* updateActivity: the accumulator after delta seconds in state lastState
\* (a missing startTime first replaces it by a fresh one created at t)
Accumulate(ce, delta, lastState, t) ==
    LET e0 == IF ce.startTime = Null THEN StartNewEpoch(ce, t) ELSE ce
        total == e0.totalSeconds + delta
        active == IF lastState = "active"
                  THEN Min(e0.activeSeconds + delta, total)
                  ELSE e0.activeSeconds
    IN  [e0 EXCEPT !.totalSeconds = total, !.activeSeconds = active]

\* updateActivity: whether the tracking state is written on this reconciliation
ShouldPersist(delta, ce) ==
    \/ delta >= PERSIST_INTERVAL_S
    \/ ce.totalSeconds % PERSIST_INTERVAL_S = 0
    \/ ce.activeSeconds % PERSIST_INTERVAL_S = 0

\* EpochElapsed with a strict comparison
EpochElapsed_Strict(now, ce) == now - ce.startTime > ce.epochDuration * 60 * 1000

\* updateActivity: now - startTime >= epochDuration * 60 * 1000
EpochElapsed(now, ce) == now - ce.startTime >= ce.epochDuration * 60 * 1000

\* InvalidEpoch that also discards a bucket shorter than its duration
InvalidEpoch_Partial(ce) ==
    ce.startTime = Null \/ ce.totalSeconds < ce.epochDuration * 60

\* finalizeEpoch: the guard that skips an empty accumulator
InvalidEpoch(ce) == ce.startTime = Null \/ ce.totalSeconds <= 0

\* finalizeEpoch: activeSeconds capped at totalSeconds
CapActive(ce) == [ce EXCEPT !.activeSeconds = Min(ce.activeSeconds, ce.totalSeconds)]

\* ActivityScore with the percentage truncated instead of rounded
ActivityScore_Floor(ce) ==
    Max(0, Min(100, (ce.activeSeconds * 100) \div ce.totalSeconds))

\* finalizeEpoch: max(0, min(100, round(active / total * 100)))
ActivityScore(ce) ==
    Max(0, Min(100, Round(ce.activeSeconds * 100, ce.totalSeconds)))

\* FinalizedRecord keyed by the end of the bucket
FinalizedRecord_AtEnd(ce) ==
    [timestamp |-> ce.startTime + ce.epochDuration * 60 * 1000,
     activityScore |-> ActivityScore(ce),
     epochDuration |-> ce.epochDuration, isGap |-> FALSE]

\* finalizeEpoch: the record that is saved
FinalizedRecord(ce) ==
    [timestamp |-> ce.startTime, activityScore |-> ActivityScore(ce),
     epochDuration |-> ce.epochDuration, isGap |-> FALSE]

\* createGapEpoch: max(1, round((endTime - startTime) / 60000))
GapDurationMinutes(startTime, endTime) == Max(1, Round(endTime - startTime, 60 * 1000))

\* GapRecord without the isGap flag
GapRecord_Unflagged(startTime, endTime) ==
    [timestamp |-> startTime, activityScore |-> GAP_SCORE,
     epochDuration |-> Max(1, Round(endTime - startTime, 60 * 1000)), isGap |-> FALSE]

\* GapRecord keyed by the end of the gap
GapRecord_AtEnd(startTime, endTime) ==
    [timestamp |-> endTime, activityScore |-> GAP_SCORE,
     epochDuration |-> Max(1, Round(endTime - startTime, 60 * 1000)), isGap |-> TRUE]

\* createGapEpoch: the record that is saved
GapRecord(startTime, endTime) ==
    [timestamp |-> startTime, activityScore |-> GAP_SCORE,
     epochDuration |-> GapDurationMinutes(startTime, endTime), isGap |-> TRUE]

(* ------------------------- store calls that may fail -------------------- *)
\* handler p goes on as record r, suspended at pc on the given path
Suspend(p, r, pc, path) ==
    proc' = [proc EXCEPT ![p] = [r EXCEPT !.pc = pc, !.path = path]]

\* StorageManager.saveActivityEpoch: the error is caught and logged
SaveActivityEpoch(rec) ==
    \/ epochs' = Put(epochs, rec) /\ UNCHANGED failBudget
    \/ CanFail /\ failBudget' = failBudget - 1 /\ UNCHANGED epochs

\* StorageManager.saveCurrentEpoch: the error is caught and logged
SaveCurrentEpoch(ce) ==
    \/ storedEpoch' = ce /\ UNCHANGED failBudget
    \/ CanFail /\ failBudget' = failBudget - 1 /\ UNCHANGED storedEpoch

\* saveTrackingState called by handler p: written, or the call will throw
SaveTrackingState(p, r, ts, okPc, path) ==
    \/ /\ storedState' = ts
       /\ Suspend(p, r, okPc, path)
       /\ UNCHANGED failBudget
    \/ /\ CanFail
       /\ failBudget' = failBudget - 1
       /\ Suspend(p, r, "saveFailed", path)
       /\ UNCHANGED storedState

(* --------------------- updateActivity / finalizeEpoch ------------------- *)
\* FinalizeOrSave without the finalization test: the accumulator is saved
FinalizeOrSave_SaveOnly(p, r, ce) ==
    /\ currentEpoch' = ce
    /\ SaveCurrentEpoch(ce)
    /\ Suspend(p, r, "reconciled", "normal")
    /\ UNCHANGED epochs

\* updateActivity from the finalization test on, for handler p (record r,
\* r.now the time its reconciliation read); ce is the accumulator at this point
FinalizeOrSave(p, r, ce) ==
    IF EpochElapsed(r.now, ce)
    THEN IF InvalidEpoch(ce)
         THEN /\ currentEpoch' = StartNewEpoch(ce, clock)
              /\ SaveCurrentEpoch(currentEpoch')
              /\ Suspend(p, r, "reconciled", "normal")
              /\ UNCHANGED epochs
         ELSE /\ currentEpoch' = CapActive(ce)
              /\ SaveActivityEpoch(FinalizedRecord(currentEpoch'))
              /\ Suspend(p, r, "finSaved", "normal")
              /\ UNCHANGED storedEpoch
    ELSE /\ currentEpoch' = ce
         /\ SaveCurrentEpoch(ce)
         /\ Suspend(p, r, "reconciled", "normal")
         /\ UNCHANGED epochs

\* UpdateActivity with handleIdleStateChange switching to the new state
\* before the elapsed time is attributed
UpdateActivity_NewStateFirst(p, r) ==
    LET delta == TimeDeltaSeconds(r.now, trackingState.lastCheckTime)
        st == IF p = "change" THEN r.newState ELSE trackingState.lastState
        ce == Accumulate(currentEpoch, delta, st, clock)
    IN  /\ trackingState' = [trackingState EXCEPT !.lastCheckTime = r.now]
        /\ IF ShouldPersist(delta, ce)
           THEN /\ currentEpoch' = ce
                /\ SaveTrackingState(p, r, trackingState', "uaStateSaved", "normal")
                /\ UNCHANGED <<storedEpoch, epochs>>
           ELSE /\ FinalizeOrSave(p, r, ce)
                /\ UNCHANGED storedState

\* updateActivity up to its first await
UpdateActivity(p, r) ==
    LET delta == TimeDeltaSeconds(r.now, trackingState.lastCheckTime)
        ce == Accumulate(currentEpoch, delta, trackingState.lastState, clock)
    IN  /\ trackingState' = [trackingState EXCEPT !.lastCheckTime = r.now]
        /\ IF ShouldPersist(delta, ce)
           THEN /\ currentEpoch' = ce
                /\ SaveTrackingState(p, r, trackingState', "uaStateSaved", "normal")
                /\ UNCHANGED <<storedEpoch, epochs>>
           ELSE /\ FinalizeOrSave(p, r, ce)
                /\ UNCHANGED storedState

\* updateActivityWithCheckpoint up to its first await, for handler p
\* starting as record r (r.now = Date.now())
UpdateActivityWithCheckpoint(p, r) ==
    IF ~isInitialized
    THEN /\ Suspend(p, r, "reconciled", "skip")
         /\ UNCHANGED <<engineVars, storedState, storedEpoch, epochs, failBudget>>
    ELSE IF IsGap(r.now - trackingState.lastCheckTime)
    THEN /\ SaveActivityEpoch(GapRecord(trackingState.lastCheckTime, r.now))
         /\ Suspend(p, r, "gapSaved", "gap")
         /\ UNCHANGED <<engineVars, storedState, storedEpoch>>
    ELSE UpdateActivity(p, r)

\* the heartbeat alarm fires: checkIdleState starts
CheckIdleState ==
    /\ proc["tick"].pc = "idle"
    /\ "activityHeartbeat" \in alarms
    /\ loaded
    /\ tickDue
    /\ tickDue' = FALSE
    /\ UpdateActivityWithCheckpoint("tick", [IdleProc EXCEPT !.now = clock])
    /\ UNCHANGED <<clock, busy, settings, changeDue, clockBudget, initVars, regVars,
                   lastHeartbeat, att, callVars>>
    /\ UNCHANGED pageVars

\* the host's idle state changes and the listener is called with newState
HandleIdleStateChange(newState) ==
    /\ proc["change"].pc = "idle"
    /\ listeners > 0
    /\ newState # busy
    /\ changeDue
    /\ changeDue' = FALSE
    /\ busy' = newState
    /\ UpdateActivityWithCheckpoint("change",
           [IdleProc EXCEPT !.now = clock, !.newState = newState])
    /\ UNCHANGED <<clock, settings, tickDue, clockBudget, initVars, regVars,
                   lastHeartbeat, att, callVars>>
    /\ UNCHANGED pageVars

\* the host's idle state changes while no listener is registered
BusyChanges(newState) ==
    /\ listeners = 0
    /\ newState # busy
    /\ changeDue
    /\ changeDue' = FALSE
    /\ busy' = newState
    /\ UNCHANGED <<clock, settings, tickDue, clockBudget, engineVars, initVars, regVars,
                   storeVars, att, proc, callVars, failBudget>>
    /\ UNCHANGED pageVars

\* GapResume that assumes the state of before the gap continues
GapResume_KeepState(p) ==
    /\ proc[p].pc = "gapSaved"
    /\ trackingState' = [trackingState EXCEPT !.lastCheckTime = proc[p].now]
    /\ storedState' = trackingState'
    /\ Suspend(p, proc[p], "reconciled", "gap")
    /\ UNCHANGED <<hostVars, currentEpoch, initVars, regVars, storedEpoch, epochs,
                   lastHeartbeat, att, callVars, failBudget>>
    /\ UNCHANGED pageVars

\* resumes after createGapEpoch and getBrowserState (which answers 'active'
\* when the query fails): state refreshed, lastCheckTime = now, state saved
GapResume(p) ==
    /\ proc[p].pc = "gapSaved"
    /\ \E failed \in BOOLEAN :
         /\ failed => CanFail
         /\ trackingState' =
              [trackingState EXCEPT !.lastState = IF failed THEN "active" ELSE busy,
                                    !.lastCheckTime = proc[p].now]
         /\ \/ /\ storedState' = trackingState'
               /\ Suspend(p, proc[p], "reconciled", "gap")
               /\ failBudget' = failBudget - (IF failed THEN 1 ELSE 0)
            \/ /\ ~failed /\ CanFail
               /\ failBudget' = failBudget - 1
               /\ Suspend(p, proc[p], "saveFailed", "gap")
               /\ UNCHANGED storedState
    /\ UNCHANGED <<hostVars, currentEpoch, initVars, regVars, storedEpoch, epochs,
                   lastHeartbeat, att, callVars>>
    /\ UNCHANGED pageVars

\* resumes after saveTrackingState in updateActivity: the finalization test
UpdateActivityResume(p) ==
    /\ proc[p].pc = "uaStateSaved"
    /\ FinalizeOrSave(p, proc[p], currentEpoch)
    /\ UNCHANGED <<hostVars, trackingState, initVars, regVars, storedState,
                   lastHeartbeat, att, callVars>>
    /\ UNCHANGED pageVars

\* resumes after saveActivityEpoch in finalizeEpoch: fresh accumulator, saved
FinalizeResume(p) ==
    /\ proc[p].pc = "finSaved"
    /\ currentEpoch' = StartNewEpoch(currentEpoch, clock)
    /\ SaveCurrentEpoch(currentEpoch')
    /\ Suspend(p, proc[p], "reconciled", proc[p].path)
    /\ UNCHANGED <<hostVars, trackingState, initVars, regVars, storedState, epochs,
                   lastHeartbeat, att, callVars>>
    /\ UNCHANGED pageVars


(* ---------------------- checkIdleState, after reconciling --------------- *)
\* chrome.storage.local.set({lastHeartbeat: Date.now()}) called by the tick
SetHeartbeat(r) ==
    \/ /\ lastHeartbeat' = clock
       /\ Suspend("tick", r, "heartbeat", r.path)
       /\ UNCHANGED failBudget
    \/ /\ CanFail
       /\ failBudget' = failBudget - 1
       /\ Suspend("tick", r, "saveFailed", r.path)
       /\ UNCHANGED lastHeartbeat

\* the catch block of checkIdleState: a critical error ('not initialized',
\* 'permission') clears the flags and calls initialize()
CheckIdleStateCatch(critical) ==
    IF critical
    THEN \E result \in Attempts :
           InitializeCall(FALSE, Null, result) /\ returned' = result
    ELSE UNCHANGED <<initVars, att, returned>>

\* resumes after updateActivityWithCheckpoint, getSettings and queryState:
\* re-syncs lastState with the queried state, then writes the heartbeat
TickQuery ==
    /\ proc["tick"].pc = "reconciled"
    /\ \/ /\ IF busy # trackingState.lastState
             THEN /\ trackingState' = [trackingState EXCEPT !.lastState = busy]
                  /\ SaveTrackingState("tick", proc["tick"], trackingState',
                                       "tickStateSaved", proc["tick"].path)
                  /\ UNCHANGED lastHeartbeat
             ELSE /\ SetHeartbeat(proc["tick"])
                  /\ UNCHANGED <<trackingState, storedState>>
          /\ UNCHANGED <<initVars, att, returned>>
       \/ /\ CanFail
          /\ failBudget' = failBudget - 1
          /\ \E critical \in BOOLEAN : CheckIdleStateCatch(critical)
          /\ proc' = [proc EXCEPT !["tick"] = IdleProc]
          /\ UNCHANGED <<trackingState, storedState, lastHeartbeat>>
    /\ UNCHANGED <<hostVars, currentEpoch, regVars, storedEpoch, epochs, loaded>>
    /\ UNCHANGED pageVars

\* resumes after saveTrackingState in checkIdleState: writes the heartbeat
TickStateSaved ==
    /\ proc["tick"].pc = "tickStateSaved"
    /\ SetHeartbeat(proc["tick"])
    /\ UNCHANGED <<hostVars, engineVars, initVars, regVars, storedState,
                   storedEpoch, epochs, att, callVars>>
    /\ UNCHANGED pageVars

\* resumes after the heartbeat write: checkIdleState returns
TickDone ==
    /\ proc["tick"].pc = "heartbeat"
    /\ proc' = [proc EXCEPT !["tick"] = IdleProc]
    /\ UNCHANGED <<hostVars, engineVars, initVars, regVars, storeVars, att, callVars,
                   failBudget>>
    /\ UNCHANGED pageVars

\* a store call awaited in checkIdleState throws: the catch block runs
TickThrows ==
    /\ proc["tick"].pc = "saveFailed"
    /\ \E critical \in BOOLEAN : CheckIdleStateCatch(critical)
    /\ proc' = [proc EXCEPT !["tick"] = IdleProc]
    /\ UNCHANGED <<hostVars, engineVars, regVars, storeVars, loaded, failBudget>>
    /\ UNCHANGED pageVars

(* ------------------ handleIdleStateChange, after reconciling ------------ *)
\* resumes after updateActivityWithCheckpoint: switches to the new state and
\* saves it (nothing follows the save, so the handler ends here either way)
ChangeSwitch ==
    /\ proc["change"].pc = "reconciled"
    /\ trackingState' = [trackingState EXCEPT !.lastState = proc["change"].newState]
    /\ \/ storedState' = trackingState' /\ UNCHANGED failBudget
       \/ CanFail /\ failBudget' = failBudget - 1 /\ UNCHANGED storedState
    /\ proc' = [proc EXCEPT !["change"] = IdleProc]
    /\ UNCHANGED <<hostVars, currentEpoch, initVars, regVars, storedEpoch, epochs,
                   lastHeartbeat, att, callVars>>
    /\ UNCHANGED pageVars

\* a store call awaited in handleIdleStateChange throws: nothing catches it
ChangeThrows ==
    /\ proc["change"].pc = "saveFailed"
    /\ proc' = [proc EXCEPT !["change"] = IdleProc]
    /\ UNCHANGED <<hostVars, engineVars, initVars, regVars, storeVars, att, callVars,
                   failBudget>>
    /\ UNCHANGED pageVars

(* ------------------------------- the host ------------------------------- *)
\* time passes
AdvanceClock(d) ==
    /\ clockBudget > 0
    /\ clock' = clock + d
    /\ clockBudget' = clockBudget - 1
    /\ tickDue' = TRUE
    /\ changeDue' = TRUE
    /\ UNCHANGED <<busy, settings, engineVars, initVars, regVars, storeVars, att,
                   proc, callVars, failBudget>>
    /\ UNCHANGED pageVars

\* the steps of a run in which nothing fails
Next ==
    \/ \E c \in Callers : Initialize(c)
    \/ \E a \in Attempts : InitStorage(a)
    \/ \E a \in Attempts : InitSettings(a)
    \/ \E a \in Attempts : InitTrackingState(a)
    \/ \E a \in Attempts : InitCurrentEpoch(a)
    \/ \E a \in Attempts : InitAlarms(a)
    \/ \E a \in Attempts : StartTrackingQuery(a)
    \/ \E a \in Attempts : StartTrackingRegister(a)
    \/ CheckIdleState
    \/ \E s \in BusyStates : HandleIdleStateChange(s)
    \/ \E s \in BusyStates : BusyChanges(s)
    \/ \E p \in Procs : GapResume(p)
    \/ \E p \in Procs : UpdateActivityResume(p)
    \/ \E p \in Procs : FinalizeResume(p)
    \/ TickQuery
    \/ TickStateSaved
    \/ TickDone
    \/ ChangeSwitch
    \/ \E d \in ClockSteps : AdvanceClock(d)

\* the steps of a run with failures: those, and the handlers' error paths
NextFail ==
    \/ Next
    \/ TickThrows
    \/ ChangeThrows

Spec == Init /\ [][Next]_vars

SpecFail == InitFail /\ [][NextFail]_vars

TypeOK ==
    /\ clock \in Nat
    /\ busy \in BusyStates
    /\ trackingState.lastState \in BusyStates
    /\ isInitialized \in BOOLEAN
    /\ initializationPromise \in {Null} \cup Attempts
    /\ serviceWorkerRestarts \in 0..MaxAttempts
    /\ alarms \subseteq AlarmNames
    /\ failBudget \in 0..MaxFailures
    /\ clockBudget \in Nat


(* ------------- the scenario: one-minute ticks, constant state ----------- *)
\* how many minutes the scenario runs
MaxMinutes == 16
\* settings.epochDuration in the scenario
SCENARIO_EPOCH_DURATION == 15

\* a first run of the worker (nothing stored), epochDuration 15, the
\* heartbeat next due a minute after the script is loaded
InitTicks ==
    /\ clock = T0
    /\ busy \in BusyStates
    /\ settings = SCENARIO_EPOCH_DURATION
    /\ tickDue = FALSE
    /\ changeDue = FALSE
    /\ trackingState = InitialTrackingState
    /\ currentEpoch = InitialEpoch
    /\ isInitialized = FALSE
    /\ isInitializing = FALSE
    /\ initializationPromise = Null
    /\ serviceWorkerRestarts = 0
    /\ listeners = 0
    /\ alarms = {}
    /\ storedState = NoRecord
    /\ storedEpoch = NoRecord
    /\ epochs = {}
    /\ lastHeartbeat = Null
    /\ att = [a \in Attempts |-> [pc |-> "idle", st |-> "none"]]
    /\ proc = [p \in Procs |-> IdleProc]
    /\ loaded = FALSE
    /\ returned = NotCalled
    /\ clockBudget = MaxMinutes
    /\ failBudget = 0
    /\ health = IdleHealth
    /\ message = NoMessage
    /\ merge = NoMerge

\* the worker is initialized, tracking has started and no handler is running
Quiescent ==
    /\ isInitialized
    /\ \A a \in Attempts : att[a].pc \in {"idle", "ok"} /\ att[a].st \in {"none", "done"}
    /\ \A p \in Procs : proc[p].pc = "idle"

\* a minute passes between two ticks
AdvanceMinute ==
    /\ Quiescent
    /\ ~tickDue
    /\ clockBudget > 0
    /\ clock' = clock + 60000
    /\ clockBudget' = clockBudget - 1
    /\ tickDue' = TRUE
    /\ UNCHANGED <<busy, settings, changeDue, engineVars, initVars, regVars,
                   storeVars, att, proc, callVars, failBudget>>
    /\ UNCHANGED pageVars

NextTicks ==
    \/ Initialize("load")
    \/ \E a \in Attempts : InitStorage(a)
    \/ \E a \in Attempts : InitSettings(a)
    \/ \E a \in Attempts : InitTrackingState(a)
    \/ \E a \in Attempts : InitCurrentEpoch(a)
    \/ \E a \in Attempts : InitAlarms(a)
    \/ \E a \in Attempts : StartTrackingQuery(a)
    \/ \E a \in Attempts : StartTrackingRegister(a)
    \/ CheckIdleState
    \/ UpdateActivityResume("tick")
    \/ FinalizeResume("tick")
    \/ TickQuery
    \/ TickDone
    \/ AdvanceMinute

SpecTicks == InitTicks /\ [][NextTicks]_vars


(* ---------------- scenario: active, then idle from minute 10 ------------ *)
\* how many clock advances the scenario runs
MaxShiftAdvances == 16
\* the time at which the host reports 'idle': ten minutes after the load
ShiftTime == T0 + 10 * 60000

\* a first run of the worker, epochDuration 15, the host 'active'
InitShift ==
    /\ clock = T0
    /\ busy = "active"
    /\ settings = SCENARIO_EPOCH_DURATION
    /\ tickDue = FALSE
    /\ changeDue = TRUE
    /\ trackingState = InitialTrackingState
    /\ currentEpoch = InitialEpoch
    /\ isInitialized = FALSE
    /\ isInitializing = FALSE
    /\ initializationPromise = Null
    /\ serviceWorkerRestarts = 0
    /\ listeners = 0
    /\ alarms = {}
    /\ storedState = NoRecord
    /\ storedEpoch = NoRecord
    /\ epochs = {}
    /\ lastHeartbeat = Null
    /\ att = [a \in Attempts |-> [pc |-> "idle", st |-> "none"]]
    /\ proc = [p \in Procs |-> IdleProc]
    /\ loaded = FALSE
    /\ returned = NotCalled
    /\ clockBudget = MaxShiftAdvances
    /\ failBudget = 0
    /\ health = IdleHealth
    /\ message = NoMessage
    /\ merge = NoMerge

\* the host goes idle at ShiftTime, after that minute's tick
ShiftToIdle ==
    /\ Quiescent
    /\ ~tickDue
    /\ clock = ShiftTime
    /\ HandleIdleStateChange("idle")
    /\ UNCHANGED pageVars

\* d milliseconds pass with no trigger: a minute between two ticks, or, once
\* the host has gone idle, five minutes in which the alarm is not delivered
ShiftAdvance(d) ==
    /\ Quiescent
    /\ ~tickDue
    /\ clockBudget > 0
    /\ clock = ShiftTime => ~changeDue
    /\ d # 60000 => (clock = ShiftTime /\ d = 5 * 60000)
    /\ clock' = clock + d
    /\ clockBudget' = clockBudget - 1
    /\ tickDue' = TRUE
    /\ UNCHANGED <<busy, settings, changeDue, engineVars, initVars, regVars,
                   storeVars, att, proc, callVars, failBudget>>
    /\ UNCHANGED pageVars

NextShift ==
    \/ Initialize("load")
    \/ \E a \in Attempts : InitStorage(a)
    \/ \E a \in Attempts : InitSettings(a)
    \/ \E a \in Attempts : InitTrackingState(a)
    \/ \E a \in Attempts : InitCurrentEpoch(a)
    \/ \E a \in Attempts : InitAlarms(a)
    \/ \E a \in Attempts : StartTrackingQuery(a)
    \/ \E a \in Attempts : StartTrackingRegister(a)
    \/ CheckIdleState
    \/ ShiftToIdle
    \/ \E p \in Procs : UpdateActivityResume(p)
    \/ FinalizeResume("tick")
    \/ GapResume("tick")
    \/ TickQuery
    \/ TickDone
    \/ ChangeSwitch
    \/ \E d \in {60000, 5 * 60000} : ShiftAdvance(d)

SpecShift == InitShift /\ [][NextShift]_vars

(* ------------- a restart that finds an accumulator saved empty ---------- *)
\* an accumulator the earlier run saved right after creating it, more than
\* its duration ago
SavedEmptyEpoch ==
    [startTime |-> T0 - 70000, activeSeconds |-> 0, totalSeconds |-> 0,
     epochDuration |-> 1]

\* the worker restarts: the alarms persist, the stores hold the earlier run's
\* tracking state and either its empty accumulator or a partly filled one
InitRestore ==
    /\ clock = T0
    /\ busy \in BusyStates
    /\ settings \in EpochDurations
    /\ tickDue = TRUE
    /\ changeDue = TRUE
    /\ trackingState = InitialTrackingState
    /\ currentEpoch = InitialEpoch
    /\ isInitialized = FALSE
    /\ isInitializing = FALSE
    /\ initializationPromise = Null
    /\ serviceWorkerRestarts = 0
    /\ listeners = 0
    /\ alarms = AlarmNames
    /\ storedState = SavedTrackingState
    /\ storedEpoch \in {SavedEmptyEpoch, SavedEpoch}
    /\ epochs = {}
    /\ lastHeartbeat = Null
    /\ att = [a \in Attempts |-> [pc |-> "idle", st |-> "none"]]
    /\ proc = [p \in Procs |-> IdleProc]
    /\ loaded = FALSE
    /\ returned = NotCalled
    /\ clockBudget = MaxAdvances
    /\ failBudget = 0
    /\ health = IdleHealth
    /\ message = NoMessage
    /\ merge = NoMerge

SpecRestore == InitRestore /\ [][Next]_vars

(* ------------------ ticks read from a clock that is reset --------------- *)
\* what the clock moves by between two ticks: a minute forward, or half a
\* minute back when the system clock is corrected
SkewSteps == {60000, 0 - 30000}

\* the clock moves between two ticks
SkewAdvance(d) ==
    /\ Quiescent
    /\ ~tickDue
    /\ clockBudget > 0
    /\ clock' = clock + d
    /\ clockBudget' = clockBudget - 1
    /\ tickDue' = TRUE
    /\ UNCHANGED <<busy, settings, changeDue, engineVars, initVars, regVars,
                   storeVars, att, proc, callVars, failBudget>>
    /\ UNCHANGED pageVars

NextSkew ==
    \/ Initialize("load")
    \/ \E a \in Attempts : InitStorage(a)
    \/ \E a \in Attempts : InitSettings(a)
    \/ \E a \in Attempts : InitTrackingState(a)
    \/ \E a \in Attempts : InitCurrentEpoch(a)
    \/ \E a \in Attempts : InitAlarms(a)
    \/ \E a \in Attempts : StartTrackingQuery(a)
    \/ \E a \in Attempts : StartTrackingRegister(a)
    \/ CheckIdleState
    \/ UpdateActivityResume("tick")
    \/ FinalizeResume("tick")
    \/ TickQuery
    \/ TickDone
    \/ \E d \in SkewSteps : SkewAdvance(d)

SpecSkew == InitTicks /\ [][NextSkew]_vars

(* ------------- the options page changes the epoch duration -------------- *)
\* the durations the options page offers in the scenario
SettingsChoices == {1, 15}

\* autoSaveSettings on the options page: StorageManager.saveSettings writes
\* the new settings; the worker is running and no handler is in progress
AutoSaveSettings(d) ==
    /\ Quiescent
    /\ d # settings
    /\ settings' = d
    /\ UNCHANGED <<clock, busy, tickDue, changeDue, clockBudget, engineVars, initVars,
                   regVars, storeVars, att, proc, callVars, failBudget>>
    /\ UNCHANGED pageVars

NextSettings ==
    \/ Initialize("load")
    \/ \E a \in Attempts : InitStorage(a)
    \/ \E a \in Attempts : InitSettings(a)
    \/ \E a \in Attempts : InitTrackingState(a)
    \/ \E a \in Attempts : InitCurrentEpoch(a)
    \/ \E a \in Attempts : InitAlarms(a)
    \/ \E a \in Attempts : StartTrackingQuery(a)
    \/ \E a \in Attempts : StartTrackingRegister(a)
    \/ CheckIdleState
    \/ UpdateActivityResume("tick")
    \/ FinalizeResume("tick")
    \/ TickQuery
    \/ TickDone
    \/ AdvanceMinute
    \/ \E d \in SettingsChoices : AutoSaveSettings(d)

SpecSettings == InitTicks /\ [][NextSettings]_vars

(* ------------- a restart after the worker was down for a while ---------- *)
\* what the earlier run left: its last reconciliation was 130 s before the
\* restart, and its accumulator is 30 s into a 1-minute epoch
DowntimeTrackingState ==
    [isTracking |-> TRUE, lastCheckTime |-> T0 - 130000, lastState |-> "active"]
DowntimeEpoch ==
    [startTime |-> T0 - 160000, activeSeconds |-> 30, totalSeconds |-> 30,
     epochDuration |-> 1]

\* the worker restarts at T0: the alarms persist, the stores hold the earlier
\* run's tracking state and accumulator
InitDowntime ==
    /\ clock = T0
    /\ busy \in BusyStates
    /\ settings \in EpochDurations
    /\ tickDue = TRUE
    /\ changeDue = TRUE
    /\ trackingState = InitialTrackingState
    /\ currentEpoch = InitialEpoch
    /\ isInitialized = FALSE
    /\ isInitializing = FALSE
    /\ initializationPromise = Null
    /\ serviceWorkerRestarts = 0
    /\ listeners = 0
    /\ alarms = AlarmNames
    /\ storedState = DowntimeTrackingState
    /\ storedEpoch = DowntimeEpoch
    /\ epochs = {}
    /\ lastHeartbeat = Null
    /\ att = [a \in Attempts |-> [pc |-> "idle", st |-> "none"]]
    /\ proc = [p \in Procs |-> IdleProc]
    /\ loaded = FALSE
    /\ returned = NotCalled
    /\ clockBudget = MaxAdvances
    /\ failBudget = 0
    /\ health = IdleHealth
    /\ message = NoMessage
    /\ merge = NoMerge

SpecDowntime == InitDowntime /\ [][Next]_vars

(* --------------------------- the health monitor ------------------------- *)
\* checkWorkerHealth: a heartbeat older than this is stale
STALE_THRESHOLD_MS == 180000
\* ensureWorkerHealth: the pause between the wake-up and the second check
WAKE_WAIT_MS == 1000
\* how many times the clock moves in the health scenario
MaxHealthAdvances == 2
\* the heartbeat the earlier run of the worker wrote last
SavedHeartbeat == T0 - 120000

MessageTypes == {"WAKE_UP", "KEEP_ALIVE"}

\* CheckWorkerHealth with a strict comparison
CheckWorkerHealth_Strict(stored, now, readFails) ==
    /\ ~readFails
    /\ stored # Null
    /\ now - stored < STALE_THRESHOLD_MS

\* checkWorkerHealth: what it returns when chrome.storage.local holds stored
\* (Null: nothing) at time now; readFails: the read throws
CheckWorkerHealth(stored, now, readFails) ==
    /\ ~readFails
    /\ stored # Null
    /\ now - stored <= STALE_THRESHOLD_MS

\* EnsureWakes that does not look at the first check
EnsureWakes_Always(isHealthy) == TRUE

\* ensureWorkerHealth: `if (!isHealthy)`
EnsureWakes(isHealthy) == ~isHealthy

\* the health record of a checkWorkerHealth call made now by operation op
Checked(op, readFails, now) ==
    [IdleHealth EXCEPT !.op = op, !.readFails = readFails,
                       !.result = CheckWorkerHealth(lastHeartbeat, now, readFails)]

\* wakeUpWorker up to its await, for the call whose record is h: sendMessage
\* delivers WAKE_UP to the worker, or rejects and wakeUpWorker returns false
WakeUpWorker(h) ==
    \/ /\ loaded
       /\ message.WAKE_UP = "none"
       /\ message' = [message EXCEPT !.WAKE_UP = "sent"]
       /\ health' = [h EXCEPT !.pc = "sent", !.wakes = 1]
    \/ /\ health' = [h EXCEPT !.pc = "done", !.wakes = 1, !.result = FALSE]
       /\ UNCHANGED message

\* the page calls WorkerHealth.check()
HealthCheck ==
    /\ health.pc \in {"idle", "done"}
    /\ \E readFails \in BOOLEAN :
         health' = [Checked("check", readFails, clock) EXCEPT !.pc = "done"]
    /\ UNCHANGED <<hostVars, engineVars, initVars, regVars, storeVars, att, proc,
                   callVars, failBudget, message>>
    /\ UNCHANGED merge

\* the page calls WorkerHealth.wakeUp()
WakeUp ==
    /\ health.pc \in {"idle", "done"}
    /\ WakeUpWorker([IdleHealth EXCEPT !.op = "wakeUp"])
    /\ UNCHANGED <<hostVars, engineVars, initVars, regVars, storeVars, att, proc,
                   callVars, failBudget>>
    /\ UNCHANGED merge

\* the page calls WorkerHealth.ensure(): the first check, then either the
\* return or the wake-up
Ensure ==
    /\ health.pc \in {"idle", "done"}
    /\ \E readFails \in BOOLEAN :
         LET h == Checked("ensure", readFails, clock) IN
         IF EnsureWakes(h.result)
         THEN WakeUpWorker([h EXCEPT !.isHealthy = h.result])
         ELSE /\ health' = [h EXCEPT !.isHealthy = h.result, !.pc = "done"]
              /\ UNCHANGED message
    /\ UNCHANGED <<hostVars, engineVars, initVars, regVars, storeVars, att, proc,
                   callVars, failBudget>>
    /\ UNCHANGED merge

\* the worker's onMessage listener gets a KEEP_ALIVE or WAKE_UP message and
\* acknowledges it
OnMessage(type) ==
    /\ loaded
    /\ message[type] = "sent"
    /\ message' = [message EXCEPT ![type] = IF type = "KEEP_ALIVE" THEN "alive" ELSE "awake"]
    /\ UNCHANGED <<hostVars, engineVars, initVars, regVars, storeVars, att, proc,
                   callVars, failBudget, health>>
    /\ UNCHANGED merge

\* sendMessage resolves: wakeUpWorker returns true; WorkerHealth.wakeUp is
\* done, ensureWorkerHealth starts its one-second pause
WakeUpReturns ==
    /\ health.pc = "sent"
    /\ message.WAKE_UP = "awake"
    /\ message' = [message EXCEPT !.WAKE_UP = "none"]
    /\ health' = IF health.op = "ensure"
                 THEN [health EXCEPT !.pc = "waiting", !.wakeSuccess = TRUE]
                 ELSE [health EXCEPT !.pc = "done", !.wakeSuccess = TRUE,
                                     !.result = TRUE]
    /\ UNCHANGED <<hostVars, engineVars, initVars, regVars, storeVars, att, proc,
                   callVars, failBudget>>
    /\ UNCHANGED merge

\* the pause is over: ensureWorkerHealth checks again and returns that
EnsureRecheck ==
    /\ health.pc = "waiting"
    /\ clockBudget > 0
    /\ clock' = clock + WAKE_WAIT_MS
    /\ clockBudget' = clockBudget - 1
    /\ \E readFails \in BOOLEAN :
         health' = [health EXCEPT !.pc = "done", !.readFails = readFails,
                                  !.result = CheckWorkerHealth(lastHeartbeat, clock', readFails)]
    /\ UNCHANGED <<busy, settings, tickDue, changeDue, engineVars, initVars, regVars,
                   storeVars, att, proc, callVars, failBudget, message>>
    /\ UNCHANGED merge

\* the page's keep-alive interval fires
KeepAlive ==
    /\ message.KEEP_ALIVE = "none"
    /\ message' = [message EXCEPT !.KEEP_ALIVE = "sent"]
    /\ UNCHANGED <<hostVars, engineVars, initVars, regVars, storeVars, att, proc,
                   callVars, failBudget, health>>
    /\ UNCHANGED merge

\* the keep-alive callback runs and ignores the response
KeepAliveDone ==
    /\ message.KEEP_ALIVE = "alive"
    /\ message' = [message EXCEPT !.KEEP_ALIVE = "none"]
    /\ UNCHANGED <<hostVars, engineVars, initVars, regVars, storeVars, att, proc,
                   callVars, failBudget, health>>
    /\ UNCHANGED merge

\* the worker restarts on an idle host with a page open: the alarms persist,
\* the stores hold the earlier run's state and possibly its heartbeat;
\* nothing fails
InitHealth ==
    /\ clock = T0
    /\ busy = "idle"
    /\ settings \in EpochDurations
    /\ tickDue = TRUE
    /\ changeDue = FALSE
    /\ trackingState = InitialTrackingState
    /\ currentEpoch = InitialEpoch
    /\ isInitialized = FALSE
    /\ isInitializing = FALSE
    /\ initializationPromise = Null
    /\ serviceWorkerRestarts = 0
    /\ listeners = 0
    /\ alarms = AlarmNames
    /\ storedState = SavedTrackingState
    /\ storedEpoch = SavedEpoch
    /\ epochs = {}
    /\ lastHeartbeat \in {Null, SavedHeartbeat}
    /\ att = [a \in Attempts |-> [pc |-> "idle", st |-> "none"]]
    /\ proc = [p \in Procs |-> IdleProc]
    /\ loaded = FALSE
    /\ returned = NotCalled
    /\ clockBudget = MaxHealthAdvances
    /\ failBudget = 0
    /\ health = IdleHealth
    /\ message = NoMessage
    /\ merge = NoMerge

\* what the worker does: initialization and the heartbeat handler
WorkerStep ==
    \/ Initialize("load")
    \/ \E a \in Attempts : InitStorage(a)
    \/ \E a \in Attempts : InitSettings(a)
    \/ \E a \in Attempts : InitTrackingState(a)
    \/ \E a \in Attempts : InitCurrentEpoch(a)
    \/ \E a \in Attempts : InitAlarms(a)
    \/ \E a \in Attempts : StartTrackingQuery(a)
    \/ \E a \in Attempts : StartTrackingRegister(a)
    \/ CheckIdleState
    \/ \E p \in Procs : GapResume(p)
    \/ \E p \in Procs : UpdateActivityResume(p)
    \/ \E p \in Procs : FinalizeResume(p)
    \/ TickQuery
    \/ TickStateSaved
    \/ TickDone
    \/ \E type \in MessageTypes : OnMessage(type)

\* what the page does
PageStep ==
    \/ HealthCheck
    \/ WakeUp
    \/ Ensure
    \/ WakeUpReturns
    \/ EnsureRecheck
    \/ KeepAlive
    \/ KeepAliveDone

NextHealth ==
    \/ WorkerStep
    \/ PageStep
    \/ \E d \in {60000, 130000} : AdvanceClock(d)

SpecHealth == InitHealth /\ [][NextHealth]_vars

(* ------------- recovery: a first run whose initialization may fail ------- *)
\* a first run of the worker (nothing stored, no alarm registered) on an idle
\* host with a page open; one host or store call may fail
InitRecovery ==
    /\ clock = T0
    /\ busy = "idle"
    /\ settings \in EpochDurations
    /\ tickDue = FALSE
    /\ changeDue = FALSE
    /\ trackingState = InitialTrackingState
    /\ currentEpoch = InitialEpoch
    /\ isInitialized = FALSE
    /\ isInitializing = FALSE
    /\ initializationPromise = Null
    /\ serviceWorkerRestarts = 0
    /\ listeners = 0
    /\ alarms = {}
    /\ storedState = NoRecord
    /\ storedEpoch = NoRecord
    /\ epochs = {}
    /\ lastHeartbeat = Null
    /\ att = [a \in Attempts |-> [pc |-> "idle", st |-> "none"]]
    /\ proc = [p \in Procs |-> IdleProc]
    /\ loaded = FALSE
    /\ returned = NotCalled
    /\ clockBudget = MaxAdvances
    /\ failBudget = MaxFailures
    /\ health = IdleHealth
    /\ message = NoMessage
    /\ merge = NoMerge

\* what the worker does by itself once its script is loaded: the attempts,
\* the heartbeat handler, the message listener
WorkerRuns ==
    \/ Initialize("load")
    \/ \E a \in Attempts : InitStorage(a)
    \/ \E a \in Attempts : InitSettings(a)
    \/ \E a \in Attempts : InitTrackingState(a)
    \/ \E a \in Attempts : InitCurrentEpoch(a)
    \/ \E a \in Attempts : InitAlarms(a)
    \/ \E a \in Attempts : StartTrackingQuery(a)
    \/ \E a \in Attempts : StartTrackingRegister(a)
    \/ CheckIdleState
    \/ \E p \in Procs : UpdateActivityResume(p)
    \/ \E p \in Procs : FinalizeResume(p)
    \/ TickQuery
    \/ TickStateSaved
    \/ TickDone
    \/ TickThrows
    \/ OnMessage("WAKE_UP")

\* the popup opens: its initialize() calls WorkerHealth.ensure(), once
PopupInitialize ==
    /\ health.op = "none"
    /\ Ensure

\* the popup's call of WorkerHealth.ensure(), from start to return
PageEnsures ==
    \/ PopupInitialize
    \/ WakeUpReturns
    \/ EnsureRecheck

\* a minute passes; the scenario's last clock step is left to the pause of
\* ensureWorkerHealth
RecoveryAdvance ==
    /\ clockBudget > 1
    /\ AdvanceClock(60000)

NextRecovery ==
    \/ WorkerRuns
    \/ PageEnsures
    \/ RecoveryAdvance

\* every handler that can run does run, and the popup's call runs to its end
SpecRecovery ==
    /\ InitRecovery
    /\ [][NextRecovery]_vars
    /\ WF_vars(WorkerRuns)
    /\ WF_vars(PageEnsures)

(* ------------------------- an explicit shutdown ------------------------- *)
\* the handlers of the shutdown scenario: the triggers' and stopTracking()
StopProcs == Procs \cup {"stop"}

\* chrome.alarms.clear(name)
ClearAlarm(as, name) == as \ {name}

\* removeListener, guarded by hasListener
RemoveListener(n) == IF n > 0 THEN n - 1 ELSE n

\* stopTracking() is called while tracking: it clears isTracking and calls
\* saveTrackingState
StopTracking ==
    /\ loaded
    /\ proc["stop"].pc = "idle"
    /\ trackingState.isTracking
    /\ trackingState' = [trackingState EXCEPT !.isTracking = FALSE]
    /\ SaveTrackingState("stop", IdleProc, trackingState', "stopSaved", "none")
    /\ UNCHANGED <<hostVars, currentEpoch, initVars, regVars, storedEpoch, epochs,
                   lastHeartbeat, att, callVars, pageVars>>

\* resumes after saveTrackingState: clears the heartbeat alarm, removes the
\* listener, and stopTracking returns
StopTrackingReleases ==
    /\ proc["stop"].pc = "stopSaved"
    /\ alarms' = ClearAlarm(alarms, "activityHeartbeat")
    /\ listeners' = RemoveListener(listeners)
    /\ proc' = [proc EXCEPT !["stop"] = IdleProc]
    /\ UNCHANGED <<hostVars, engineVars, initVars, storeVars, att, callVars,
                   failBudget, pageVars>>

\* a first run of the worker (nothing stored); nothing fails; the heartbeat is
\* next due a minute after the script is loaded
InitStop ==
    /\ clock = T0
    /\ busy \in BusyStates
    /\ settings \in EpochDurations
    /\ tickDue = FALSE
    /\ changeDue = FALSE
    /\ trackingState = InitialTrackingState
    /\ currentEpoch = InitialEpoch
    /\ isInitialized = FALSE
    /\ isInitializing = FALSE
    /\ initializationPromise = Null
    /\ serviceWorkerRestarts = 0
    /\ listeners = 0
    /\ alarms = {}
    /\ storedState = NoRecord
    /\ storedEpoch = NoRecord
    /\ epochs = {}
    /\ lastHeartbeat = Null
    /\ att = [a \in Attempts |-> [pc |-> "idle", st |-> "none"]]
    /\ proc = [p \in StopProcs |-> IdleProc]
    /\ loaded = FALSE
    /\ returned = NotCalled
    /\ clockBudget = MaxAdvances
    /\ failBudget = 0
    /\ health = IdleHealth
    /\ message = NoMessage
    /\ merge = NoMerge

NextStop ==
    \/ NextTicks
    \/ StopTracking
    \/ StopTrackingReleases

SpecStop == InitStop /\ [][NextStop]_vars

(* ------------------ ticks on both sides of the trusted gap -------------- *)
\* how many ticks the scenario has
MaxGapAdvances == 3
\* what the clock moves by between two ticks: exactly the trusted gap, one
\* millisecond more, two and a half minutes
GapSteps == {MAX_TRUSTED_GAP_MS, MAX_TRUSTED_GAP_MS + 1, MAX_TRUSTED_GAP_MS + 30000}

\* a first run of the worker (nothing stored); nothing fails; the first tick
\* comes after the first clock step
InitGap ==
    /\ clock = T0
    /\ busy \in BusyStates
    /\ settings \in EpochDurations
    /\ tickDue = FALSE
    /\ changeDue = FALSE
    /\ trackingState = InitialTrackingState
    /\ currentEpoch = InitialEpoch
    /\ isInitialized = FALSE
    /\ isInitializing = FALSE
    /\ initializationPromise = Null
    /\ serviceWorkerRestarts = 0
    /\ listeners = 0
    /\ alarms = {}
    /\ storedState = NoRecord
    /\ storedEpoch = NoRecord
    /\ epochs = {}
    /\ lastHeartbeat = Null
    /\ att = [a \in Attempts |-> [pc |-> "idle", st |-> "none"]]
    /\ proc = [p \in Procs |-> IdleProc]
    /\ loaded = FALSE
    /\ returned = NotCalled
    /\ clockBudget = MaxGapAdvances
    /\ failBudget = 0
    /\ health = IdleHealth
    /\ message = NoMessage
    /\ merge = NoMerge

NextGap ==
    \/ Initialize("load")
    \/ \E a \in Attempts : InitStorage(a)
    \/ \E a \in Attempts : InitSettings(a)
    \/ \E a \in Attempts : InitTrackingState(a)
    \/ \E a \in Attempts : InitCurrentEpoch(a)
    \/ \E a \in Attempts : InitAlarms(a)
    \/ \E a \in Attempts : StartTrackingQuery(a)
    \/ \E a \in Attempts : StartTrackingRegister(a)
    \/ CheckIdleState
    \/ GapResume("tick")
    \/ UpdateActivityResume("tick")
    \/ FinalizeResume("tick")
    \/ TickQuery
    \/ TickDone
    \/ \E d \in GapSteps : SkewAdvance(d)

SpecGap == InitGap /\ [][NextGap]_vars

(* ------------------- importData: merging imported epochs ---------------- *)
\* how many epochs each input of the merge holds at most
MaxEpochs == 2
\* the timestamps and scores the inputs draw from
MergeEpochs == [timestamp : {T0, T0 + 60000}, activityScore : {20, 80}]

\* sequences of at most n epochs
RECURSIVE EpochSeqs(_)
EpochSeqs(n) ==
    IF n = 0 THEN {<<>>}
    ELSE EpochSeqs(n - 1) \cup
         {Append(s, e) : s \in {q \in EpochSeqs(n - 1) : Len(q) = n - 1}, e \in MergeEpochs}

\* what getActivityData returns: the object store's epochs, one per
\* timestamp (the key), in key order
ExistingInputs ==
    {s \in EpochSeqs(MaxEpochs) :
        \A i, j \in DOMAIN s : i < j => s[i].timestamp < s[j].timestamp}
\* what an import file may hold: any epochs in any order
ImportedInputs == EpochSeqs(MaxEpochs)

\* findIndex(e => e.timestamp === t): the first index that matches
FindIndex(merged, t) ==
    CHOOSE i \in DOMAIN merged :
        /\ merged[i].timestamp = t
        /\ \A j \in 1..(i - 1) : merged[j].timestamp # t

\* the body of the loop of _mergeActivityData for one imported epoch
MergeEpoch(merged, existingTimestamps, epoch) ==
    IF epoch.timestamp \notin existingTimestamps
    THEN Append(merged, epoch)
    ELSE LET existingIndex == FindIndex(merged, epoch.timestamp) IN
         IF epoch.activityScore > merged[existingIndex].activityScore
         THEN [merged EXCEPT ![existingIndex] = epoch]
         ELSE merged

\* the loop over the imported epochs, in order
RECURSIVE MergeLoop(_, _, _)
MergeLoop(merged, existingTimestamps, imported) ==
    IF imported = <<>> THEN merged
    ELSE MergeLoop(MergeEpoch(merged, existingTimestamps, Head(imported)),
                   existingTimestamps, Tail(imported))

\* e put after the epochs of the sorted sequence whose timestamp is not larger
RECURSIVE InsertByTimestamp(_, _)
InsertByTimestamp(sorted, e) ==
    IF sorted = <<>> THEN <<e>>
    ELSE IF Head(sorted).timestamp <= e.timestamp
    THEN <<Head(sorted)>> \o InsertByTimestamp(Tail(sorted), e)
    ELSE <<e>> \o sorted

\* merged.sort((a, b) => a.timestamp - b.timestamp): a stable sort
RECURSIVE SortByTimestamp(_)
SortByTimestamp(s) ==
    IF s = <<>> THEN <<>>
    ELSE InsertByTimestamp(SortByTimestamp(SubSeq(s, 1, Len(s) - 1)), s[Len(s)])

\* _mergeActivityData(existing, imported)
MergeActivityData(existing, imported) ==
    SortByTimestamp(
        MergeLoop(existing, {existing[i].timestamp : i \in DOMAIN existing}, imported))

\* the worker has not started; an import is about to merge its file's epochs
\* with the stored ones
InitMerge ==
    /\ clock = T0
    /\ busy = "active"
    /\ settings \in EpochDurations
    /\ tickDue = FALSE
    /\ changeDue = FALSE
    /\ trackingState = InitialTrackingState
    /\ currentEpoch = InitialEpoch
    /\ isInitialized = FALSE
    /\ isInitializing = FALSE
    /\ initializationPromise = Null
    /\ serviceWorkerRestarts = 0
    /\ listeners = 0
    /\ alarms = {}
    /\ storedState = NoRecord
    /\ storedEpoch = NoRecord
    /\ epochs = {}
    /\ lastHeartbeat = Null
    /\ att = [a \in Attempts |-> [pc |-> "idle", st |-> "none"]]
    /\ proc = [p \in Procs |-> IdleProc]
    /\ loaded = FALSE
    /\ returned = NotCalled
    /\ clockBudget = 0
    /\ failBudget = 0
    /\ health = IdleHealth
    /\ message = NoMessage
    /\ \E existing \in ExistingInputs, imported \in ImportedInputs :
         merge = [NoMerge EXCEPT !.existing = existing, !.imported = imported]

\* importData calls _mergeActivityData on the two arrays
ImportMerges ==
    /\ ~merge.done
    /\ merge' = [merge EXCEPT !.result = MergeActivityData(merge.existing, merge.imported),
                              !.done = TRUE]
    /\ UNCHANGED <<hostVars, engineVars, initVars, regVars, storeVars, att, proc,
                   callVars, failBudget, health, message>>

SpecMerge == InitMerge /\ [][ImportMerges]_vars

(* ------- scenario: the worker is stopped in the middle of finalizeEpoch ---- *)
\* how many times the clock advances in the scenario
MaxCrashAdvances == 3
\* the time between two ticks (ms)
CrashSteps == {20500, 60000}

\* a first run of the worker; the host's state changes only while no listener
\* is registered
InitCrash ==
    /\ clock = T0
    /\ busy \in BusyStates
    /\ settings \in EpochDurations
    /\ tickDue = FALSE
    /\ changeDue = FALSE
    /\ trackingState = InitialTrackingState
    /\ currentEpoch = InitialEpoch
    /\ isInitialized = FALSE
    /\ isInitializing = FALSE
    /\ initializationPromise = Null
    /\ serviceWorkerRestarts = 0
    /\ listeners = 0
    /\ alarms = {}
    /\ storedState = NoRecord
    /\ storedEpoch = NoRecord
    /\ epochs = {}
    /\ lastHeartbeat = Null
    /\ att = [a \in Attempts |-> [pc |-> "idle", st |-> "none"]]
    /\ proc = [p \in Procs |-> IdleProc]
    /\ loaded = FALSE
    /\ returned = NotCalled
    /\ clockBudget = MaxCrashAdvances
    /\ failBudget = 0
    /\ health = IdleHealth
    /\ message = NoMessage
    /\ merge = NoMerge

\* the host terminates the worker while handler p's finalizeEpoch is suspended
\* after saveActivityEpoch (line 375) and before startNewEpoch and
\* saveCurrentEpoch (lines 380-381); the next event loads the script again:
\* the module-level state has its initial values (lines 12-29), no listener is
\* registered, the stores and the alarms are what they were
WorkerStops(p) ==
    /\ proc[p].pc = "finSaved"
    /\ trackingState' = [InitialTrackingState EXCEPT !.lastCheckTime = clock]
    /\ currentEpoch' = InitialEpoch
    /\ isInitialized' = FALSE
    /\ isInitializing' = FALSE
    /\ initializationPromise' = Null
    /\ serviceWorkerRestarts' = 0
    /\ listeners' = 0
    /\ att' = [a \in Attempts |-> [pc |-> "idle", st |-> "none"]]
    /\ proc' = [q \in Procs |-> IdleProc]
    /\ loaded' = FALSE
    /\ returned' = NotCalled
    /\ UNCHANGED <<hostVars, alarms, storeVars, failBudget>>
    /\ UNCHANGED pageVars

\* time passes between two ticks
CrashAdvance(d) ==
    /\ Quiescent
    /\ ~tickDue
    /\ clockBudget > 0
    /\ clock' = clock + d
    /\ clockBudget' = clockBudget - 1
    /\ tickDue' = TRUE
    /\ changeDue' = TRUE
    /\ UNCHANGED <<busy, settings, engineVars, initVars, regVars, storeVars, att,
                   proc, callVars, failBudget>>
    /\ UNCHANGED pageVars

\* the steps of the serialized run, without the worker being stopped
NextSerial ==
    \/ Initialize("load")
    \/ \E a \in Attempts : InitStorage(a)
    \/ \E a \in Attempts : InitSettings(a)
    \/ \E a \in Attempts : InitTrackingState(a)
    \/ \E a \in Attempts : InitCurrentEpoch(a)
    \/ \E a \in Attempts : InitAlarms(a)
    \/ \E a \in Attempts : StartTrackingQuery(a)
    \/ \E a \in Attempts : StartTrackingRegister(a)
    \/ CheckIdleState
    \/ \E s \in BusyStates : BusyChanges(s)
    \/ UpdateActivityResume("tick")
    \/ FinalizeResume("tick")
    \/ TickQuery
    \/ TickDone
    \/ \E d \in CrashSteps : CrashAdvance(d)

NextCrash ==
    \/ NextSerial
    \/ WorkerStops("tick")

SpecCrash == InitCrash /\ [][NextCrash]_vars

(* ------ scenario: a second change notification overtakes the first -------- *)
\* how many times the clock advances in the scenario
MaxRaceAdvances == 1
\* the handlers: the tick and two overlapping calls of handleIdleStateChange
RaceProcs == Procs \cup {"change2"}

\* a first run of the worker (nothing stored); nothing fails
InitRace ==
    /\ clock = T0
    /\ busy \in BusyStates
    /\ settings \in EpochDurations
    /\ tickDue = FALSE
    /\ changeDue = FALSE
    /\ trackingState = InitialTrackingState
    /\ currentEpoch = InitialEpoch
    /\ isInitialized = FALSE
    /\ isInitializing = FALSE
    /\ initializationPromise = Null
    /\ serviceWorkerRestarts = 0
    /\ listeners = 0
    /\ alarms = {}
    /\ storedState = NoRecord
    /\ storedEpoch = NoRecord
    /\ epochs = {}
    /\ lastHeartbeat = Null
    /\ att = [a \in Attempts |-> [pc |-> "idle", st |-> "none"]]
    /\ proc = [p \in RaceProcs |-> IdleProc]
    /\ loaded = FALSE
    /\ returned = NotCalled
    /\ clockBudget = MaxRaceAdvances
    /\ failBudget = 0
    /\ health = IdleHealth
    /\ message = NoMessage
    /\ merge = NoMerge

\* no handler is running and the engine is initialized
RaceQuiescent == Quiescent /\ proc["change2"].pc = "idle"

\* the listener is called again, with the host's next state, while its
\* earlier call is suspended at an await
SecondChange(newState) ==
    /\ proc["change"].pc # "idle"
    /\ proc["change2"].pc = "idle"
    /\ listeners > 0
    /\ newState # busy
    /\ busy' = newState
    /\ UpdateActivityWithCheckpoint("change2",
           [IdleProc EXCEPT !.now = clock, !.newState = newState])
    /\ UNCHANGED <<clock, settings, tickDue, changeDue, clockBudget, initVars,
                   regVars, lastHeartbeat, att, callVars>>
    /\ UNCHANGED pageVars

\* the second call resumes after updateActivityWithCheckpoint: switches to
\* its newState and saves it
SecondChangeSwitch ==
    /\ proc["change2"].pc = "reconciled"
    /\ trackingState' = [trackingState EXCEPT !.lastState = proc["change2"].newState]
    /\ storedState' = trackingState'
    /\ proc' = [proc EXCEPT !["change2"] = IdleProc]
    /\ UNCHANGED <<hostVars, currentEpoch, initVars, regVars, storedEpoch, epochs,
                   lastHeartbeat, att, callVars, failBudget>>
    /\ UNCHANGED pageVars

\* a minute passes while no handler is running
RaceAdvance ==
    /\ RaceQuiescent
    /\ AdvanceClock(60000)

NextRace ==
    \/ Initialize("load")
    \/ \E a \in Attempts : InitStorage(a)
    \/ \E a \in Attempts : InitSettings(a)
    \/ \E a \in Attempts : InitTrackingState(a)
    \/ \E a \in Attempts : InitCurrentEpoch(a)
    \/ \E a \in Attempts : InitAlarms(a)
    \/ \E a \in Attempts : StartTrackingQuery(a)
    \/ \E a \in Attempts : StartTrackingRegister(a)
    \/ CheckIdleState
    \/ \E s \in BusyStates : HandleIdleStateChange(s)
    \/ \E s \in BusyStates : SecondChange(s)
    \/ \E p \in RaceProcs : UpdateActivityResume(p)
    \/ \E p \in RaceProcs : FinalizeResume(p)
    \/ TickQuery
    \/ TickStateSaved
    \/ TickDone
    \/ ChangeSwitch
    \/ SecondChangeSwitch
    \/ RaceAdvance

SpecRace == InitRace /\ [][NextRace]_vars

(* ------- scenario: serialized ticks around the gap threshold, with ------- *)
(* ------- host and store calls that may fail                        ------- *)
InitGapFail ==
    /\ clock = T0
    /\ busy \in BusyStates
    /\ settings \in EpochDurations
    /\ tickDue = FALSE
    /\ changeDue = FALSE
    /\ trackingState = InitialTrackingState
    /\ currentEpoch = InitialEpoch
    /\ isInitialized = FALSE
    /\ isInitializing = FALSE
    /\ initializationPromise = Null
    /\ serviceWorkerRestarts = 0
    /\ listeners = 0
    /\ alarms = {}
    /\ storedState = NoRecord
    /\ storedEpoch = NoRecord
    /\ epochs = {}
    /\ lastHeartbeat = Null
    /\ att = [a \in Attempts |-> [pc |-> "idle", st |-> "none"]]
    /\ proc = [p \in Procs |-> IdleProc]
    /\ loaded = FALSE
    /\ returned = NotCalled
    /\ clockBudget = MaxGapAdvances
    /\ failBudget = MaxFailures
    /\ health = IdleHealth
    /\ message = NoMessage
    /\ merge = NoMerge

NextGapFail ==
    \/ NextGap
    \/ TickStateSaved
    \/ TickThrows

SpecGapFail == InitGapFail /\ [][NextGapFail]_vars

(* ------ scenario: serialized ticks, the clock set back and forth ---------- *)
\* the clock moves by the trusted interval between two ticks, either way
RewindSteps == {MAX_TRUSTED_GAP_MS, 0 - MAX_TRUSTED_GAP_MS}

NextRewind ==
    \/ Initialize("load")
    \/ \E a \in Attempts : InitStorage(a)
    \/ \E a \in Attempts : InitSettings(a)
    \/ \E a \in Attempts : InitTrackingState(a)
    \/ \E a \in Attempts : InitCurrentEpoch(a)
    \/ \E a \in Attempts : InitAlarms(a)
    \/ \E a \in Attempts : StartTrackingQuery(a)
    \/ \E a \in Attempts : StartTrackingRegister(a)
    \/ CheckIdleState
    \/ UpdateActivityResume("tick")
    \/ FinalizeResume("tick")
    \/ TickQuery
    \/ TickDone
    \/ \E d \in RewindSteps : SkewAdvance(d)

SpecRewind == InitGap /\ [][NextRewind]_vars

(* ------ scenario: ticks keep coming, at most a trusted interval apart ------ *)
\* how many times the clock advances in the scenario
MaxLiveAdvances == 6
\* the time between two ticks (ms): never more than MAX_TRUSTED_GAP_MS
LiveSteps == {20500, 60000, MAX_TRUSTED_GAP_MS}

\* a first run of the worker (nothing stored); nothing fails
InitLive ==
    /\ clock = T0
    /\ busy \in BusyStates
    /\ settings \in EpochDurations
    /\ tickDue = FALSE
    /\ changeDue = FALSE
    /\ trackingState = InitialTrackingState
    /\ currentEpoch = InitialEpoch
    /\ isInitialized = FALSE
    /\ isInitializing = FALSE
    /\ initializationPromise = Null
    /\ serviceWorkerRestarts = 0
    /\ listeners = 0
    /\ alarms = {}
    /\ storedState = NoRecord
    /\ storedEpoch = NoRecord
    /\ epochs = {}
    /\ lastHeartbeat = Null
    /\ att = [a \in Attempts |-> [pc |-> "idle", st |-> "none"]]
    /\ proc = [p \in Procs |-> IdleProc]
    /\ loaded = FALSE
    /\ returned = NotCalled
    /\ clockBudget = MaxLiveAdvances
    /\ failBudget = 0
    /\ health = IdleHealth
    /\ message = NoMessage
    /\ merge = NoMerge

\* the worker's own steps: the initialization attempt and the continuations
\* of checkIdleState, which the event loop runs once their awaits settle
LiveContinues ==
    \/ Initialize("load")
    \/ \E a \in Attempts : InitStorage(a)
    \/ \E a \in Attempts : InitSettings(a)
    \/ \E a \in Attempts : InitTrackingState(a)
    \/ \E a \in Attempts : InitCurrentEpoch(a)
    \/ \E a \in Attempts : InitAlarms(a)
    \/ \E a \in Attempts : StartTrackingQuery(a)
    \/ \E a \in Attempts : StartTrackingRegister(a)
    \/ UpdateActivityResume("tick")
    \/ FinalizeResume("tick")
    \/ TickQuery
    \/ TickDone

\* the time to the next tick passes
LiveAdvance == \E d \in LiveSteps : SkewAdvance(d)

NextLive ==
    \/ LiveContinues
    \/ CheckIdleState
    \/ LiveAdvance

\* the alarm is periodic (periodInMinutes: 1) and its listener stays
\* registered, so a due tick is delivered; settled awaits are resumed
SpecLive ==
    /\ InitLive
    /\ [][NextLive]_vars
    /\ WF_vars(LiveContinues)
    /\ WF_vars(CheckIdleState)
    /\ WF_vars(LiveAdvance)

(* ------------- scenario: importData against the epochs store -------------- *)
\* a call of importData that has not started: the file's epochs, whether the
\* file has one of the two formats, the merge flag, the store's epochs when
\* the call is made, where the call is and what it returned
NoImport ==
    [existing |-> <<>>, imported |-> <<>>, result |-> <<>>, done |-> FALSE,
     pc |-> "idle", valid |-> TRUE, mergeMode |-> TRUE, before |-> {},
     returned |-> "none"]

\* store.getAll(): the store's epochs in key (timestamp) order
StoreContents(store) ==
    CHOOSE s \in ExistingInputs :
        /\ Len(s) = Cardinality(store)
        /\ {s[i] : i \in DOMAIN s} = store

\* epochs.forEach(epoch => store.put(epoch)), in order
RECURSIVE PutAll(_, _)
PutAll(store, s) ==
    IF s = <<>> THEN store ELSE PutAll(Put(store, Head(s)), Tail(s))

\* the worker has not started; the store holds epochs of an earlier run and
\* possibly its open accumulator; one store call of the import may fail
InitImport ==
    /\ clock = T0
    /\ busy = "active"
    /\ settings \in EpochDurations
    /\ tickDue = FALSE
    /\ changeDue = FALSE
    /\ trackingState = InitialTrackingState
    /\ currentEpoch = InitialEpoch
    /\ isInitialized = FALSE
    /\ isInitializing = FALSE
    /\ initializationPromise = Null
    /\ serviceWorkerRestarts = 0
    /\ listeners = 0
    /\ alarms = {}
    /\ storedState = NoRecord
    /\ storedEpoch \in {NoRecord, SavedEpoch}
    /\ \E stored \in ExistingInputs : epochs = {stored[i] : i \in DOMAIN stored}
    /\ lastHeartbeat = Null
    /\ att = [a \in Attempts |-> [pc |-> "idle", st |-> "none"]]
    /\ proc = [p \in Procs |-> IdleProc]
    /\ loaded = FALSE
    /\ returned = NotCalled
    /\ clockBudget = 0
    /\ failBudget = MaxFailures
    /\ health = IdleHealth
    /\ message = NoMessage
    /\ \E imported \in ImportedInputs, valid, mergeMode \in BOOLEAN :
         /\ ~valid => imported = <<>>
         /\ merge = [NoImport EXCEPT !.imported = imported, !.valid = valid,
                                     !.mergeMode = mergeMode, !.before = epochs]

\* importData up to its first await: a file of neither format throws, which
\* the catch turns into `return false`; merge mode calls getActivityData,
\* replace mode calls clearAllData
ImportData ==
    /\ merge.pc = "idle"
    /\ merge' =
         IF ~merge.valid THEN [merge EXCEPT !.pc = "done", !.returned = "false"]
         ELSE IF merge.mergeMode THEN [merge EXCEPT !.pc = "read"]
         ELSE [merge EXCEPT !.result = merge.imported, !.pc = "clearing"]
    /\ UNCHANGED <<hostVars, engineVars, initVars, regVars, storeVars, att, proc,
                   callVars, failBudget, health, message>>

\* resumes after getActivityData (which answers [] when the read fails):
\* merges and calls clearAllData
ImportRead ==
    /\ merge.pc = "read"
    /\ \E failed \in BOOLEAN :
         /\ failed => CanFail
         /\ failBudget' = failBudget - (IF failed THEN 1 ELSE 0)
         /\ LET existing == IF failed THEN <<>> ELSE StoreContents(epochs) IN
            merge' = [merge EXCEPT !.existing = existing,
                                   !.result = MergeActivityData(existing, merge.imported),
                                   !.pc = "clearing"]
    /\ UNCHANGED <<hostVars, engineVars, initVars, regVars, storeVars, att, proc,
                   callVars, health, message>>

\* resumes after IndexedDBManager.clearAllData: its transaction has emptied
\* the epochs store and the current-epoch store, and saveActivityEpochs is
\* called; or the transaction failed, nothing is cleared and the catch
\* returns false
ImportCleared ==
    /\ merge.pc = "clearing"
    /\ \/ /\ epochs' = {}
          /\ storedEpoch' = NoRecord
          /\ merge' = [merge EXCEPT !.pc = "writing"]
          /\ UNCHANGED failBudget
       \/ /\ CanFail
          /\ failBudget' = failBudget - 1
          /\ merge' = [merge EXCEPT !.pc = "done", !.returned = "false"]
          /\ UNCHANGED <<epochs, storedEpoch>>
    /\ UNCHANGED <<hostVars, engineVars, initVars, regVars, storedState,
                   lastHeartbeat, att, proc, callVars, health, message>>

\* resumes after IndexedDBManager.saveActivityEpochs: its transaction has put
\* every epoch and importData returns true; or it failed (the transaction is
\* aborted, or a put throws after earlier ones were queued) and the catch
\* returns false
ImportWritten ==
    /\ merge.pc = "writing"
    /\ \/ /\ epochs' = PutAll(epochs, merge.result)
          /\ merge' = [merge EXCEPT !.pc = "done", !.returned = "true"]
          /\ UNCHANGED failBudget
       \/ /\ CanFail
          /\ failBudget' = failBudget - 1
          /\ \E k \in 0..Max(0, Len(merge.result) - 1) :
               epochs' = PutAll(epochs, SubSeq(merge.result, 1, k))
          /\ merge' = [merge EXCEPT !.pc = "done", !.returned = "false"]
    /\ UNCHANGED <<hostVars, engineVars, initVars, regVars, storedState, storedEpoch,
                   lastHeartbeat, att, proc, callVars, health, message>>

NextImport ==
    \/ ImportData
    \/ ImportRead
    \/ ImportCleared
    \/ ImportWritten

SpecImport == InitImport /\ [][NextImport]_vars

(* ================================ claims ================================ *)

\* C1: in every reachable state the open accumulator satisfies
\* 0 <= activeSeconds <= totalSeconds.
C1_AccumulatorBounds ==
    /\ 0 <= currentEpoch.activeSeconds
    /\ currentEpoch.activeSeconds <= currentEpoch.totalSeconds

\* an accumulator created in this run that has taken both active and idle time
C1_Witness ==
    /\ isInitialized
    /\ currentEpoch.startTime >= T0
    /\ currentEpoch.activeSeconds > 0
    /\ currentEpoch.activeSeconds < currentEpoch.totalSeconds

\* C2: every record in the finalized-epoch store has an integer score in
\* 0..100, or is a gap record (isGap) with score -1.
C2_StoredScores ==
    \A r \in epochs :
        \/ r.isGap /\ r.activityScore = -1
        \/ ~r.isGap /\ r.activityScore \in 0..100

\* the store holds a real record with a score strictly inside the range and a gap record
C2_Witness ==
    \E r, g \in epochs : ~r.isGap /\ r.activityScore \in 1..99 /\ g.isGap

\* C3: a reconciliation that finds now - lastCheckTime > 120000 takes the gap
\* path: it writes exactly one gap record, keyed by the previous lastCheckTime,
\* leaves the accumulator alone, and ends by setting lastCheckTime to its now.
C3_GapPath ==
    [][\A p \in Procs :
        /\ (/\ proc[p].pc = "idle" /\ proc'[p].pc # "idle"
            /\ isInitialized
            /\ clock - trackingState.lastCheckTime > 120000)
           => /\ proc'[p].path = "gap"
              /\ \E g \in epochs' :
                   /\ g.timestamp = trackingState.lastCheckTime
                   /\ g.isGap
                   /\ g.activityScore = -1
                   /\ epochs' \ {g} \subseteq epochs
                   /\ \A r \in epochs : r.timestamp # g.timestamp => r \in epochs'
              /\ currentEpoch' = currentEpoch
              /\ trackingState' = trackingState
        /\ (proc[p].pc = "gapSaved" /\ proc'[p].pc # "gapSaved")
           => /\ trackingState'.lastCheckTime = proc[p].now
              /\ currentEpoch' = currentEpoch
              /\ epochs' = epochs
      ]_vars

\* a handler has gone through the gap path: its record is stored and
\* lastCheckTime is the time it read
C3_Witness ==
    \E p \in Procs :
        /\ proc[p].path = "gap"
        /\ proc[p].pc = "reconciled"
        /\ trackingState.lastCheckTime = proc[p].now
        /\ \E g \in epochs : g.isGap /\ g.timestamp < proc[p].now - 120000

\* C4: when handleIdleStateChange(newState) reconciles on the normal path, the
\* elapsed seconds go to activeSeconds iff the old lastState is 'active', and
\* lastState changes to newState only in the step after the reconciliation.
C4_OldStateAttribution ==
    [][LET p == "change"
           elapsed == (clock - trackingState.lastCheckTime) \div 1000
           delta == IF elapsed < 0 THEN 0 ELSE elapsed
           before == IF currentEpoch.startTime = Null THEN 0
                     ELSE currentEpoch.activeSeconds
       IN  /\ (proc[p].pc = "idle" /\ proc'[p].path = "normal")
              => /\ currentEpoch'.activeSeconds =
                       before + (IF trackingState.lastState = "active" THEN delta ELSE 0)
                 /\ trackingState'.lastState = trackingState.lastState
           /\ (proc[p].path = "normal" /\ proc'[p] # proc[p])
              => IF proc[p].pc = "reconciled"
                 THEN trackingState'.lastState = proc[p].newState
                 ELSE trackingState'.lastState = trackingState.lastState
      ]_vars

\* the change handler has just attributed 20 elapsed seconds to the old state
\* 'active' while the new state is 'idle', and has not switched yet
C4_Witness ==
    /\ proc["change"].path = "normal"
    /\ proc["change"].pc # "idle"
    /\ proc["change"].newState = "idle"
    /\ trackingState.lastState = "active"
    /\ proc["tick"].pc = "idle"
    /\ tickDue
    /\ currentEpoch.startTime = T0
    /\ currentEpoch.activeSeconds = 20
    /\ currentEpoch.totalSeconds = 20

\* a handler is inside updateActivityWithCheckpoint, suspended at an await
Reconciling(p) == proc[p].pc \in {"gapSaved", "uaStateSaved", "finSaved"}

\* C5: reconciliations are mutually exclusive: no trigger starts reading or
\* writing lastCheckTime, lastState or the accumulator while another
\* handler's reconciliation is suspended at an await.
C5_MutualExclusion ==
    [][\A p \in Procs :
         (proc[p].pc = "idle" /\ proc'[p].pc # "idle" /\ isInitialized)
         => \A q \in Procs \ {p} : ~Reconciling(q)
      ]_vars

\* C6: the initialize() calls made while no attempt has completed start
\* exactly one attempt.
C6_SingleAttempt ==
    (\A a \in Attempts : att[a].pc \notin {"ok", "failed"})
    => serviceWorkerRestarts <= 1

\* C7: initialize() called on an initialized engine returns at once and
\* changes nothing.
C7_InitializedNoop ==
    [][\A c \in Callers :
         (isInitialized /\ Initialize(c))
         => /\ returned' = Returned
            /\ UNCHANGED <<trackingState, currentEpoch, isInitialized, isInitializing,
                           initializationPromise, serviceWorkerRestarts, alarms,
                           listeners, storedState, storedEpoch, epochs,
                           lastHeartbeat, att, proc>>
      ]_vars

\* the engine is initialized and an initialize() call has returned at once
C7_Witness == isInitialized /\ returned = Returned

\* C8: the step in which an attempt fails leaves isInitialized = false,
\* isInitializing = false and no promise; and an initialize() call made in
\* such a state starts a new attempt.
C8_FailureResets ==
    [][/\ \A a \in Attempts :
            (att[a].pc # "failed" /\ att'[a].pc = "failed")
            => /\ ~isInitialized'
               /\ ~isInitializing'
               /\ initializationPromise' = Null
       /\ \A c \in Callers :
            (~isInitialized /\ initializationPromise = Null /\ Initialize(c))
            => /\ serviceWorkerRestarts' = serviceWorkerRestarts + 1
               /\ initializationPromise' = serviceWorkerRestarts'
               /\ returned' = serviceWorkerRestarts'
               /\ att'[serviceWorkerRestarts'].pc = "storageInit"
      ]_vars

\* an attempt has failed and a later initialize() call has started the next one
C8_Witness ==
    \E a \in Attempts :
        /\ att[a].pc = "failed"
        /\ ~isInitialized
        /\ initializationPromise = a + 1
        /\ returned = a + 1

\* C9: whenever isInitialized is true the heartbeat alarm and the idle
\* listener are registered, once each, and startTracking has finished.
C9_InitializedRegistered ==
    isInitialized =>
        /\ "activityHeartbeat" \in alarms
        /\ listeners = 1
        /\ \A a \in Attempts : att[a].pc = "ok" => att[a].st = "done"

\* C10: epochDuration 15, fresh accumulator, ticks one minute apart, constant
\* state: no epoch is stored before the 15th tick; when the 15th tick's
\* handler has returned exactly one is, with score 100 if the state is
\* 'active' and 0 otherwise, and no other record is stored in the 16th minute.
C10_FifteenTicks ==
    /\ epochs \subseteq {[timestamp |-> T0,
                         activityScore |-> IF busy = "active" THEN 100 ELSE 0,
                         epochDuration |-> 15, isGap |-> FALSE]}
    /\ epochs # {} => trackingState.lastCheckTime >= T0 + 15 * 60000
    /\ (proc["tick"].pc = "idle" /\ trackingState.lastCheckTime >= T0 + 15 * 60000)
       => epochs # {}

\* the 15th tick has reconciled and its epoch is stored
C10_Witness ==
    /\ trackingState.lastCheckTime = T0 + 15 * 60000
    /\ proc["tick"].pc = "idle"
    /\ \E r \in epochs : r.timestamp = T0 /\ r.activityScore \in {0, 100}

\* C11: epochDuration 15, ten minutes 'active', the change to 'idle', then
\* five more minutes before the next tick: the epoch finalized for the bucket
\* has activeSeconds 600, totalSeconds 900 and score 67.
C11_ShiftScore ==
    /\ proc["tick"].pc = "finSaved"
       => currentEpoch.activeSeconds = 600 /\ currentEpoch.totalSeconds = 900
    /\ \A r \in epochs : ~r.isGap => r.timestamp = T0 /\ r.activityScore = 67

\* C11 amended: the same when the five idle minutes are covered by the
\* one-minute ticks, so that no reconciliation takes the gap path (the store
\* holds no gap record): the bucket is finalized at the 15th tick with
\* activeSeconds 600, totalSeconds 900 and score 67.
C11_ShiftScoreTicked ==
    (\A g \in epochs : ~g.isGap) =>
        /\ proc["tick"].pc = "finSaved"
           => currentEpoch.activeSeconds = 600 /\ currentEpoch.totalSeconds = 900
        /\ epochs \subseteq {[timestamp |-> T0, activityScore |-> 67,
                             epochDuration |-> 15, isGap |-> FALSE]}
        /\ (proc["tick"].pc = "idle" /\ trackingState.lastCheckTime >= T0 + 15 * 60000)
           => epochs # {}

\* the 15th tick has finalized the bucket with score 67
C11_Witness ==
    /\ trackingState.lastCheckTime = T0 + 15 * 60000
    /\ trackingState.lastState = "idle"
    /\ proc["tick"].pc = "idle"
    /\ epochs = {[timestamp |-> T0, activityScore |-> 67,
                  epochDuration |-> 15, isGap |-> FALSE]}

\* C12: the step that completes a gap-path reconciliation leaves lastState
\* equal to the state the host reports at that step, whatever it was before.
C12_GapRefreshesState ==
    [][\A p \in Procs :
         (proc[p].pc = "gapSaved" /\ proc'[p].pc = "reconciled")
         => trackingState'.lastState = busy
      ]_vars

\* the idle-change handler has completed a gap-path reconciliation started by
\* a change to 'locked', and lastState is 'locked' before the handler's own
\* switch to the new state
C12_Witness ==
    /\ proc["change"].path = "gap"
    /\ proc["change"].pc = "reconciled"
    /\ proc["change"].newState = "locked"
    /\ proc["tick"].pc = "idle"
    /\ tickDue
    /\ busy = "locked"
    /\ trackingState.lastState = "locked"
    /\ trackingState.lastCheckTime = proc["change"].now

\* C13: when a normal-path reconciliation reaches the finalization test with
\* now - startTime >= epochDuration * 60000 and totalSeconds > 0, it stores
\* exactly one record (timestamp startTime, the accumulator's epochDuration,
\* score clamp(round(100 * active / total), 0, 100)) and then replaces the
\* accumulator by a fresh one with 0/0; with now - startTime below the
\* duration it stores nothing and the accumulator keeps its startTime.
C13_FinalizationBoundary ==
    [][\A p \in Procs :
         LET direct == proc[p].pc = "idle"
             d0 == (clock - trackingState.lastCheckTime) \div 1000
             d == IF d0 < 0 THEN 0 ELSE d0
             start == IF currentEpoch.startTime = Null THEN clock
                      ELSE currentEpoch.startTime
             tot0 == IF currentEpoch.startTime = Null THEN 0
                     ELSE currentEpoch.totalSeconds
             act0 == IF currentEpoch.startTime = Null THEN 0
                     ELSE currentEpoch.activeSeconds
             total == IF direct THEN tot0 + d ELSE currentEpoch.totalSeconds
             grown == IF trackingState.lastState = "active" THEN act0 + d ELSE act0
             active == IF direct THEN (IF grown > total THEN total ELSE grown)
                       ELSE currentEpoch.activeSeconds
             startTime == IF direct THEN start ELSE currentEpoch.startTime
             now == proc'[p].now
             pct == (2 * active * 100 + total) \div (2 * total)
             score == IF pct > 100 THEN 100 ELSE IF pct < 0 THEN 0 ELSE pct
             rec == [timestamp |-> startTime, activityScore |-> score,
                     epochDuration |-> currentEpoch.epochDuration, isGap |-> FALSE]
         IN  /\ (/\ proc[p].pc \in {"idle", "uaStateSaved"}
                 /\ proc'[p].pc \in {"finSaved", "reconciled"}
                 /\ proc'[p].path = "normal")
                => /\ (now - startTime >= currentEpoch.epochDuration * 60000 /\ total > 0)
                      => /\ proc'[p].pc = "finSaved"
                         /\ epochs' = {r \in epochs : r.timestamp # startTime} \cup {rec}
                   /\ now - startTime < currentEpoch.epochDuration * 60000
                      => /\ proc'[p].pc = "reconciled"
                         /\ epochs' = epochs
                         /\ currentEpoch'.startTime = startTime
             /\ (proc[p].pc = "finSaved" /\ proc'[p].pc # "finSaved")
                => /\ currentEpoch'.activeSeconds = 0
                   /\ currentEpoch'.totalSeconds = 0
                   /\ currentEpoch'.startTime = clock
                   /\ epochs' = epochs
      ]_vars

\* a reconciliation has stored the record of a bucket with a score strictly
\* between 0 and 100 and has replaced the accumulator by a fresh one
C13_Witness ==
    \E p \in Procs :
        /\ proc[p].pc = "reconciled"
        /\ proc[p].path = "normal"
        /\ currentEpoch.startTime = proc[p].now
        /\ currentEpoch.totalSeconds = 0
        /\ \E r \in epochs : ~r.isGap /\ r.activityScore \in 1..99
                             /\ r.timestamp < proc[p].now

\* C14: when the finalization test passes with startTime unset or
\* totalSeconds <= 0, no record is written, the accumulator is replaced by a
\* fresh one (0/0) and the handler goes on normally; when it passes with
\* totalSeconds > 0, also below the bucket's length, the bucket is stored.
C14_EmptyEpochGuard ==
    [][\A p \in Procs :
         LET elapsed == proc[p].now - currentEpoch.startTime
                          >= currentEpoch.epochDuration * 60000
         IN  (proc[p].pc = "uaStateSaved" /\ proc'[p].pc # "uaStateSaved" /\ elapsed)
             => IF currentEpoch.startTime = Null \/ currentEpoch.totalSeconds <= 0
                THEN /\ epochs' = epochs
                     /\ currentEpoch'.activeSeconds = 0
                     /\ currentEpoch'.totalSeconds = 0
                     /\ currentEpoch'.startTime = clock
                     /\ proc'[p].pc = "reconciled"
                ELSE /\ proc'[p].pc = "finSaved"
                     /\ \E r \in epochs' :
                          /\ r.timestamp = currentEpoch.startTime
                          /\ ~r.isGap
                          /\ r.activityScore \in 0..100
      ]_vars

\* the restored empty accumulator has been discarded: nothing is stored and
\* a fresh accumulator has replaced it
C14_Witness ==
    \E p \in Procs :
        /\ proc[p].pc = "reconciled"
        /\ proc[p].path = "normal"
        /\ proc[p].now = T0
        /\ currentEpoch.startTime = T0
        /\ currentEpoch.totalSeconds = 0
        /\ storedEpoch = currentEpoch
        /\ epochs = {}

\* C15: trackingState.lastCheckTime never decreases: after every step it is
\* at least what it was before the step.
C15_LastCheckTimeMonotone ==
    [][trackingState'.lastCheckTime >= trackingState.lastCheckTime]_vars

\* C16: a trigger delivered while the engine is not initialized is a no-op:
\* no step of its handler changes trackingState, the accumulator, the stored
\* tracking state, the stored accumulator or the finalized epochs.
C16_UninitializedNoop ==
    [][\A p \in Procs :
         (/\ proc'[p] # proc[p]
          /\ \/ proc[p].pc = "idle" /\ ~isInitialized
             \/ proc[p].path = "skip")
         => UNCHANGED <<trackingState, currentEpoch, storedState, storedEpoch, epochs>>
      ]_vars

\* C17: when the write of the finalized epoch has failed (the handler is past
\* saveActivityEpoch, the accumulator is still the bucket it finalized and the
\* store holds no record of it), the handler leaves the accumulator as it
\* was: same startTime, activeSeconds, totalSeconds.
C17_FailedSaveKeepsAccumulator ==
    [][\A p \in Procs :
         (/\ proc[p].pc = "finSaved"
          /\ proc'[p].pc # "finSaved"
          /\ currentEpoch.totalSeconds > 0
          /\ proc[p].now - currentEpoch.startTime >= currentEpoch.epochDuration * 60000
          /\ ~\E r \in epochs : r.timestamp = currentEpoch.startTime /\ ~r.isGap)
         => /\ currentEpoch'.startTime = currentEpoch.startTime
            /\ currentEpoch'.activeSeconds = currentEpoch.activeSeconds
            /\ currentEpoch'.totalSeconds = currentEpoch.totalSeconds
      ]_vars

\* C18: a reconciliation that hits an unrecoverable error, whichever trigger
\* started it, ends with the engine not initialized and an initialization
\* attempt in flight, and a reconciliation accumulates time only while the
\* engine is initialized. (The error's class is the host's choice: the step
\* of checkIdleState's catch on a critical error, and the step in which a
\* store call awaited by handleIdleStateChange rejects, with any error.)
C18_UnrecoverableDeinit ==
    [][/\ (/\ proc["tick"].pc = "saveFailed"
           /\ proc'["tick"].pc = "idle"
           /\ CheckIdleStateCatch(TRUE))
          => ~isInitialized' /\ initializationPromise' # Null
       /\ (proc["change"].pc = "saveFailed" /\ proc'["change"].pc = "idle")
          => ~isInitialized' /\ initializationPromise' # Null
       /\ \A p \in Procs :
            (proc[p].pc = "idle" /\ proc'[p].path \in {"normal", "gap"})
            => isInitialized
      ]_vars

\* C19: finalized records are write-once per timestamp: a record that is in
\* the store stays in it as it is (no later write replaces it), and a gap
\* record never has the open accumulator's startTime as its timestamp.
C19_WriteOnce ==
    [][/\ \A r \in epochs : r \in epochs'
       /\ \A g \in epochs' : g.isGap => g.timestamp # currentEpoch'.startTime
      ]_vars

\* C20: every accumulator created (a fresh one with a new startTime and no
\* seconds, made by finalization, by the empty-epoch guard or by an
\* initialization that finds none saved) has epochDuration equal to the
\* configured value at that moment.
C20_NewEpochUsesSettings ==
    [][(/\ currentEpoch'.startTime # currentEpoch.startTime
        /\ currentEpoch'.startTime = clock
        /\ currentEpoch'.totalSeconds = 0)
       => currentEpoch'.epochDuration = settings
      ]_vars

\* C21: while an accumulator is open its startTime and epochDuration do not
\* change: only the step that ends it (the reset after finalization, or the
\* empty-epoch guard) replaces them; no reconciliation, settings change or
\* re-initialization does.
C21_OpenEpochImmutable ==
    [][(/\ currentEpoch.startTime # Null
        /\ ~\E p \in Procs :
              \/ proc[p].pc = "finSaved" /\ proc'[p].pc # "finSaved"
              \/ /\ proc[p].pc \in {"idle", "uaStateSaved"}
                 /\ proc'[p].pc = "reconciled"
                 /\ proc'[p].path = "normal"
                 /\ currentEpoch.totalSeconds <= 0
                 /\ currentEpoch'.totalSeconds = 0)
       => /\ currentEpoch'.startTime = currentEpoch.startTime
          /\ currentEpoch'.epochDuration = currentEpoch.epochDuration
      ]_vars

\* C22: after a restart more than MAX_TRUSTED_GAP_MS after the persisted
\* lastCheckTime, by the time a reconciliation has moved lastCheckTime past
\* the restart the store holds a gap record that starts at the persisted
\* lastCheckTime.
C22_DowntimeRecorded ==
    trackingState.lastCheckTime > T0
        => \E g \in epochs : g.isGap /\ g.timestamp = T0 - 130000

\* C23: whenever the engine is initialized and no handler is running, the
\* in-memory lastCheckTime is at most 30 s ahead of the lastCheckTime of the
\* tracking state in the store.
C23_StalenessBound ==
    (Quiescent /\ storedState # NoRecord)
        => trackingState.lastCheckTime - storedState.lastCheckTime <= 30 * 1000

\* C24: a call of WorkerHealth.check() returns true exactly when the read
\* succeeds, a heartbeat is stored and it is at most 180000 ms old (180000
\* itself counts as healthy); otherwise it returns false.
C24_HealthVerdict ==
    [][(health' # health /\ health'.op = "check")
       => (health'.result <=> /\ ~health'.readFails
                              /\ lastHeartbeat # 0
                              /\ clock - lastHeartbeat <= 180000)
      ]_vars

C24_Witness ==
    /\ health.op = "check"
    /\ health.pc = "done"
    /\ health.result
    /\ lastHeartbeat # 0
    /\ clock - lastHeartbeat = 180000

\* C25: a step of the Health Monitor (check, wakeUp, ensure) or of the
\* worker's handling of a WAKE_UP or KEEP_ALIVE message changes neither the
\* tracking state nor the accumulator, in memory or in the store; and an
\* ensure() whose first check passed has sent no wake request.
C25_MonitorFrame ==
    /\ [][(health' # health \/ message' # message)
          => UNCHANGED <<trackingState, currentEpoch, storedState, storedEpoch>>
         ]_vars
    /\ []((health.op = "ensure" /\ health.isHealthy)
          => (health.wakes = 0 /\ message.WAKE_UP = "none"))

C25_Witness ==
    /\ health.op = "ensure"
    /\ health.pc = "done"
    /\ health.isHealthy
    /\ isInitialized
    /\ currentEpoch.totalSeconds > 0
    /\ message.KEEP_ALIVE = "alive"

\* C26: when the worker is alive, its initialization has failed, no attempt is
\* in flight, and the wake request that ensure() sent after an unhealthy check
\* is waiting to be handled, the engine eventually becomes initialized.
C26_WakeRecovers ==
    (/\ loaded
     /\ ~isInitialized
     /\ initializationPromise = Null
     /\ \E a \in Attempts : att[a].pc = "failed"
     /\ health.op = "ensure"
     /\ ~health.isHealthy
     /\ message.WAKE_UP = "sent")
        ~> isInitialized

\* C27: when stopTracking() returns, the store holds the in-memory tracking
\* state and the in-memory accumulator; and the heartbeat alarm and the
\* idle-state listener are released by no step other than that one.
C27_ShutdownFlushes ==
    /\ [][(proc["stop"].pc = "stopSaved" /\ proc'["stop"].pc = "idle")
          => (storedState' = trackingState' /\ storedEpoch' = currentEpoch')
         ]_vars
    /\ [][(\/ "activityHeartbeat" \in alarms /\ "activityHeartbeat" \notin alarms'
           \/ listeners' < listeners)
          => (proc["stop"].pc = "stopSaved" /\ proc'["stop"].pc = "idle")
         ]_vars

\* C28: a reconciliation of an initialized engine takes the gap path exactly
\* when now - lastCheckTime > 120000 (at 120000 it takes the normal path), and
\* the gap record it stores has epochDuration max(1, round(elapsed / 60000)),
\* which is at least 1.
C28_GapThreshold ==
    [][\A p \in Procs :
         (isInitialized /\ proc[p].pc = "idle" /\ proc'[p].pc # "idle")
         => /\ proc'[p].path = "gap" <=> clock - trackingState.lastCheckTime > 120000
            /\ \A g \in epochs' \ epochs :
                 g.isGap =>
                   LET rounded == (2 * (clock - g.timestamp) + 60000) \div 120000
                   IN  /\ g.epochDuration = IF rounded < 1 THEN 1 ELSE rounded
                       /\ g.epochDuration >= 1
      ]_vars

C28_Witness ==
    /\ [timestamp |-> T0, activityScore |-> 0 - 1, epochDuration |-> 3,
        isGap |-> TRUE] \in epochs
    /\ proc["tick"].path = "normal"
    /\ proc["tick"].now = T0 + 150000 + 120000
    /\ currentEpoch.totalSeconds = 120

\* C29: serviceWorkerRestarts equals the number of attempts started so far;
\* a step raises it by one exactly when it starts an attempt, whatever the
\* attempt's outcome, and an initialize() call made while the engine is
\* initialized or an attempt is in flight leaves it alone.
C29_RestartCounter ==
    /\ [](serviceWorkerRestarts = Cardinality({a \in Attempts : att[a].pc # "idle"}))
    /\ [][serviceWorkerRestarts' = serviceWorkerRestarts +
            (IF \E a \in Attempts : att[a].pc = "idle" /\ att'[a].pc # "idle"
             THEN 1 ELSE 0)
         ]_vars
    /\ [][\A c \in Callers :
            (Initialize(c) /\ (isInitialized \/ initializationPromise # 0))
            => UNCHANGED serviceWorkerRestarts
         ]_vars

C29_Witness ==
    /\ serviceWorkerRestarts = 2
    /\ att[1].pc = "failed"
    /\ att[2].pc = "ok"
    /\ returned = 0

\* C30: the result of _mergeActivityData is in ascending timestamp order and
\* holds exactly one epoch for each timestamp of either input, no others; for
\* a timestamp of both inputs that epoch carries the higher of the scores.
C30_MergeResult ==
    merge.done =>
      LET r == merge.result
          existingAt(t) == {merge.existing[i] : i \in {k \in DOMAIN merge.existing : merge.existing[k].timestamp = t}}
          importedAt(t) == {merge.imported[i] : i \in {k \in DOMAIN merge.imported : merge.imported[k].timestamp = t}}
          stamps == {merge.existing[i].timestamp : i \in DOMAIN merge.existing}
                    \cup {merge.imported[i].timestamp : i \in DOMAIN merge.imported}
      IN  /\ \A i, j \in DOMAIN r : i < j => r[i].timestamp <= r[j].timestamp
          /\ \A i \in DOMAIN r : r[i].timestamp \in stamps
          /\ \A t \in stamps :
               /\ Cardinality({i \in DOMAIN r : r[i].timestamp = t}) = 1
               /\ \A i \in DOMAIN r :
                    (r[i].timestamp = t /\ existingAt(t) # {} /\ importedAt(t) # {})
                    => /\ \A e \in existingAt(t) \cup importedAt(t) :
                            e.activityScore <= r[i].activityScore
                       /\ \E e \in existingAt(t) \cup importedAt(t) :
                            e.activityScore = r[i].activityScore

\* C31: when the worker is stopped after the finalized record of an
\* accumulator was written and before the fresh accumulator was saved, the
\* restarted worker does not finalize that bucket again: no step rewrites the
\* stored non-gap record of a startTime with a different activityScore.
C31_FinalizedOnce ==
    [][\A r \in epochs :
         ~r.isGap =>
           \A s \in epochs' :
             (s.timestamp = r.timestamp /\ ~s.isGap)
             => s.activityScore = r.activityScore
      ]_vars

\* C32: when a reconciliation returns, on the normal path or on the gap path,
\* the open accumulator is younger than its duration at the time that
\* reconciliation read: now - startTime < epochDuration * 60000.
C32_NoOverdueAccumulator ==
    [][\A p \in Procs :
         (/\ proc[p].pc \in {"idle", "uaStateSaved", "finSaved", "gapSaved"}
          /\ proc'[p].pc = "reconciled"
          /\ proc'[p].path \in {"normal", "gap"})
         => /\ currentEpoch'.startTime # Null
            /\ proc'[p].now - currentEpoch'.startTime
                 < currentEpoch'.epochDuration * 60000
      ]_vars

\* C32 (amended): when a reconciliation returns on the normal path, the open
\* accumulator is younger than its duration at the time that reconciliation
\* read: now - startTime < epochDuration * 60000.
C32_NormalPathClosesOverdue ==
    [][\A p \in Procs :
         (/\ proc[p].pc \in {"idle", "uaStateSaved", "finSaved"}
          /\ proc'[p].pc = "reconciled"
          /\ proc'[p].path = "normal")
         => /\ currentEpoch'.startTime # Null
            /\ proc'[p].now - currentEpoch'.startTime
                 < currentEpoch'.epochDuration * 60000
      ]_vars

\* a tick's reconciliation has returned on the normal path after finalizing
\* an accumulator that had reached its duration and replacing it
C32_Witness ==
    /\ proc["tick"].pc = "reconciled"
    /\ proc["tick"].path = "normal"
    /\ proc["tick"].now > T0
    /\ currentEpoch.startTime = proc["tick"].now
    /\ currentEpoch.totalSeconds = 0
    /\ \E r \in epochs : ~r.isGap /\ r.timestamp < currentEpoch.startTime

\* C33: at every moment at most one initialization attempt is in flight
\* (started and neither completed nor failed), also when checkIdleState's
\* error path asks for re-initialization during an earlier attempt.
C33_OneAttemptInFlight ==
    Cardinality({a \in Attempts : att[a].pc \notin {"idle", "ok", "failed"}}) <= 1

\* C34: when overlapping triggers (a tick that re-queries the busy state,
\* change notifications) have all completed, lastState is the busy state
\* observed last, which is the host's current state: every change of it was
\* delivered to the listener.
C34_LatestStateWins ==
    (RaceQuiescent /\ listeners > 0) => trackingState.lastState = busy

\* C35: around an epoch boundary each closed accumulator is finalized once
\* and replaced once: no handler writes a finalized record for a startTime
\* that already has one, and the reset that follows a handler's finalization
\* does not replace a fresh accumulator (created at or after the time that
\* handler read) which already holds seconds.
C35_FinalizedExactlyOnce ==
    [][\A p \in Procs :
         /\ (proc[p].pc # "finSaved" /\ proc'[p].pc = "finSaved")
            => ~\E r \in epochs : r.timestamp = currentEpoch'.startTime /\ ~r.isGap
         /\ (/\ proc[p].pc = "finSaved"
             /\ proc'[p].pc # "finSaved"
             /\ currentEpoch.startTime >= proc[p].now
             /\ currentEpoch.totalSeconds > 0)
            => currentEpoch' = currentEpoch
      ]_vars

\* C36: a gap-path reconciliation whose gap record was not written (the
\* interval from lastCheckTime to the time it read is longer than
\* MAX_TRUSTED_GAP_MS and the store holds no gap record that starts at
\* lastCheckTime) does not move lastCheckTime past the unrecorded interval.
C36_UnrecordedGapRetried ==
    [][\A p \in Procs :
         (/\ proc[p].pc = "gapSaved"
          /\ proc'[p].pc # "gapSaved"
          /\ proc[p].now - trackingState.lastCheckTime > 120000
          /\ ~\E r \in epochs : r.isGap /\ r.timestamp = trackingState.lastCheckTime)
         => trackingState'.lastCheckTime = trackingState.lastCheckTime
      ]_vars

\* C37: the stored lastHeartbeat is refreshed only by a periodic tick whose
\* reconciliation ran (normal or gap path), which it does only on an
\* initialized engine; a tick that found the engine not initialized leaves
\* the liveness timestamp alone.
C37_HeartbeatMeansInitialized ==
    [][lastHeartbeat' # lastHeartbeat
       => proc["tick"].path \in {"normal", "gap"}
      ]_vars

\* C38: in serialized runs, whatever the clock readings (also readings
\* earlier than a previous one), an accumulator that is finalized into a
\* non-gap record holds at most its duration plus one trusted interval:
\* totalSeconds <= epochDuration * 60 + 120.
C38_BucketSecondsBounded ==
    proc["tick"].pc = "finSaved"
        => currentEpoch.totalSeconds <= currentEpoch.epochDuration * 60 + 120

\* C39: with the engine initialized and ticks delivered at most
\* MAX_TRUSTED_GAP_MS apart, an open accumulator whose duration has passed is
\* eventually closed (finalized or discarded) and replaced by a fresh one.
C39_OverdueEventuallyClosed ==
    (/\ isInitialized
     /\ currentEpoch.startTime # 0
     /\ clock - currentEpoch.startTime >= currentEpoch.epochDuration * 60000)
    ~> (/\ currentEpoch.startTime # 0
        /\ clock - currentEpoch.startTime < currentEpoch.epochDuration * 60000)

\* two accumulators in succession have been closed by ticks, the second one
\* created when the first was finalized, and a fresh one is open
C39_Witness ==
    /\ isInitialized
    /\ currentEpoch.startTime = clock
    /\ currentEpoch.totalSeconds = 0
    /\ \E r1, r2 \in epochs :
         /\ ~r1.isGap /\ ~r2.isGap
         /\ r1.timestamp = T0
         /\ r2.timestamp > r1.timestamp

\* C40: whenever importData has returned false, the epochs store holds
\* exactly the epochs it held when importData was called.
C40_ImportAllOrNothing ==
    (merge.pc = "done" /\ merge.returned = "false") => epochs = merge.before

=============================================================================
